---- MODULE Spec2Model ----
(***************************************************************************)
(* Dealer management service: the dual-backend persistence layer           *)
(* (VehicleService, CustomerService, ContractService), the ds_* schema     *)
(* created by initializePostgres / initializeSQLite, and the metadata      *)
(* insert of the contract-files upload route.                              *)
(*                                                                         *)
(* A table is a set of rows (records).  A service call is one action: it   *)
(* runs the statements of the call against the store and leaves what the   *)
(* call resolved or rejected with in `result`.                             *)
(***************************************************************************)
EXTENDS Integers, Sequences, FiniteSets, TLC

VARIABLES
  usePostgres,        \* the services' backend flag (constructor argument)
  now,                \* the wall clock read by new Date(), in milliseconds
  ds_vehicle,         \* rows of table ds_vehicle
  ds_customer,        \* rows of table ds_customer
  ds_contract,        \* rows of table ds_contract
  ds_contract_image,  \* rows of table ds_contract_image
  lastID,             \* per table, the highest id handed out (SERIAL / AUTOINCREMENT)
  result,             \* what the last service call resolved or rejected with
  pager,              \* a client reading GET /api/contracts page by page
  seed,               \* seedSampleData: calls made, SQLite inserts issued and not yet run
  server,             \* the process: how far startup has come, sqliteDb, the services constructed
  schema,             \* per table, its columns in the store (none: the table does not exist)
  pool,               \* pgPool: the clients handed out by connect() and not yet released
  spaces,             \* keys of the objects in the Spaces bucket
  inflight            \* a SQLite create or update between its write and its read

vars == <<usePostgres, now, ds_vehicle, ds_customer, ds_contract, ds_contract_image, lastID, result, pager, seed,
          server, schema, pool, spaces, inflight>>

\* state outside the store and the service layer
aux == <<pager, seed, server, schema, pool, spaces, inflight>>

tables == <<ds_vehicle, ds_customer, ds_contract, ds_contract_image>>

(***************************************************************************)
(* Bounds of the model.                                                    *)
(***************************************************************************)
MaxVehicles == 2    \* ids handed out by ds_vehicle
MaxCustomers == 1   \* ids handed out by ds_customer
MaxContracts == 2   \* ids handed out by ds_contract
MaxImages == 1      \* ids handed out by ds_contract_image
MaxClock == 1       \* milliseconds that may pass
MaxTextLen == 2     \* length of the enumerated search texts
MaxLimit == 2       \* page sizes a client asks for
MaxSeedRows == 2    \* sample rows per table, of the five the code lists
MaxSeedCalls == 2   \* calls of seedSampleData

(***************************************************************************)
(* JavaScript / SQL values.  A field that is `undefined` in a request      *)
(* object is UNDEFINED (strings) or UNDEF_NUM (numbers); SQL NULL is NULL  *)
(* (strings) or NULL_NUM (numbers).                                        *)
(***************************************************************************)
UNDEFINED == "undefined"
NULL == "null"
UNDEF_NUM == 0 - 1
NULL_NUM == 0 - 2

VehicleIds == 1..MaxVehicles
CustomerIds == 1..MaxCustomers
ContractIds == 1..MaxContracts

VINs == {"VIN_A", "VIN_B"}
VehicleStatuses == {"available", "rented"}
ContractStatuses == {"active", "returned", "completed", "cancelled"}
ContractNumbers == {"CN_1", "CN_2"}

\* the columns that hold numbers
NumericFields == {"id", "vehicle_id", "customer_id", "contract_id", "mileage", "tax_amount",
                  "created_at", "updated_at"}

\* x || d on a string: '' and undefined are falsy
OrString(x, d) == IF x = UNDEFINED \/ x = "" THEN d ELSE x

\* x || d on a number: 0 and undefined are falsy
OrNumber(x, d) == IF x = UNDEF_NUM \/ x = 0 THEN d ELSE x

\* the one row of a table with the given id, as a set (empty when absent)
RowsById(table, id) == {r \in table : r.id = id}

TheRow(rows) == CHOOSE r \in rows : TRUE

\* a resolved or rejected call
Outcome(op, id, data, ret, err, rows, stmts) ==
  [op |-> op, id |-> id, data |-> data, ret |-> ret, err |-> err, rows |-> rows, stmts |-> stmts]

NoData == [none |-> TRUE]

\* no create or update is waiting for its SELECT
NoRead == [op |-> "none", id |-> 0, data |-> NoData]

(***************************************************************************)
(* Schema constraints (init-db).                                           *)
(***************************************************************************)
\* (a schema without the UNIQUE on vin_number)
VinNotUnique(table, id, vin) == FALSE

\* vin_number ... UNIQUE NOT NULL, on both backends
VinUniqueViolation(table, id, vin) == \E r \in table : r.id # id /\ r.vin_number = vin

\* (a schema without the UNIQUE on contract_number)
ContractNumberNotUnique(table, id, cn) == FALSE

\* contract_number ... UNIQUE NOT NULL, on both backends
ContractNumberUniqueViolation(table, id, cn) == \E r \in table : r.id # id /\ r.contract_number = cn

\* (a store that enforces no foreign key)
ForeignKeysIgnored == FALSE

\* REFERENCES is enforced by PostgreSQL; the SQLite connection is opened
\* without PRAGMA foreign_keys, so there the clauses are declared only
ForeignKeysEnforced == usePostgres

(***************************************************************************)
(* pgPool.  Every handler that asks the pool for a client does             *)
(*   const client = await pool.connect(); try { ... } finally { client.release() } *)
(* and the services use pool.query, which hands out no client.             *)
(***************************************************************************)
NoClients == [out |-> 0]

\* (a handler that releases after its statements, outside any finally)
releaseAfterStatements(threw) == IF threw THEN 0 ELSE 1

\* the releases of one handler: finally runs whether the statements threw or not
releaseInFinally(threw) == 1

\* the pool after a handler that took a client and ran its statements
withClient(threw) == [pool EXCEPT !.out = @ + 1 - releaseInFinally(threw)]

(***************************************************************************)
(* VehicleService                                                          *)
(***************************************************************************)
VehicleCreates(vins, mileages, statuses) ==
  [vin_number : vins, mileage : mileages, status : statuses]

VehicleUpdates(vins, mileages, statuses) ==
  [vin_number : vins \cup {UNDEFINED}, mileage : mileages \cup {UNDEF_NUM},
   status : statuses \cup {UNDEFINED}]

createVehicleRow(vehicleData) ==
  [id |-> lastID.vehicle + 1,
   vin_number |-> vehicleData.vin_number,
   mileage |-> OrNumber(vehicleData.mileage, 0),
   status |-> OrString(vehicleData.status, "available"),
   created_at |-> now,
   updated_at |-> now]

createVehicle(vehicleData) ==
  /\ lastID.vehicle < MaxVehicles
  /\ IF VinUniqueViolation(ds_vehicle, 0, vehicleData.vin_number)
     THEN /\ result' = Outcome("createVehicle", 0, vehicleData, "reject", "unique", <<>>, 1)
          /\ UNCHANGED <<ds_vehicle, lastID>>
     ELSE LET row == createVehicleRow(vehicleData) IN
          /\ ds_vehicle' = ds_vehicle \cup {row}
          /\ lastID' = [lastID EXCEPT !.vehicle = row.id]
          /\ result' = Outcome("createVehicle", 0, vehicleData, "row", "", <<row>>,
                               IF usePostgres THEN 1 ELSE 2)
  /\ UNCHANGED <<usePostgres, now, ds_customer, ds_contract, ds_contract_image, aux>>

\* the SET clause: the supplied fields, then always updated_at
\* (an update that leaves updated_at as it was)
updateVehicleRowUntouched(row, vehicleData) ==
  [row EXCEPT
     !.vin_number = IF vehicleData.vin_number # UNDEFINED THEN vehicleData.vin_number ELSE @,
     !.mileage = IF vehicleData.mileage # UNDEF_NUM THEN vehicleData.mileage ELSE @,
     !.status = IF vehicleData.status # UNDEFINED THEN vehicleData.status ELSE @]

\* SET <each defined field>, updated_at = new Date()
updateVehicleRow(row, vehicleData) ==
  [row EXCEPT
     !.vin_number = IF vehicleData.vin_number # UNDEFINED THEN vehicleData.vin_number ELSE @,
     !.mileage = IF vehicleData.mileage # UNDEF_NUM THEN vehicleData.mileage ELSE @,
     !.status = IF vehicleData.status # UNDEFINED THEN vehicleData.status ELSE @,
     !.updated_at = now]

updateVehicle(id, vehicleData) ==
  LET old == RowsById(ds_vehicle, id) IN
  /\ IF old = {}
     THEN /\ result' = Outcome("updateVehicle", id, vehicleData, "null", "", <<>>, 1)
          /\ UNCHANGED ds_vehicle
     ELSE LET row == updateVehicleRow(TheRow(old), vehicleData) IN
          IF VinUniqueViolation(ds_vehicle, id, row.vin_number)
          THEN /\ result' = Outcome("updateVehicle", id, vehicleData, "reject", "unique", <<>>, 1)
               /\ UNCHANGED ds_vehicle
          ELSE /\ ds_vehicle' = (ds_vehicle \ old) \cup {row}
               /\ result' = Outcome("updateVehicle", id, vehicleData, "row", "", <<row>>,
                                    IF usePostgres THEN 1 ELSE 2)
  /\ UNCHANGED <<usePostgres, now, ds_customer, ds_contract, ds_contract_image, lastID, aux>>

deleteVehicle(id) ==
  LET old == RowsById(ds_vehicle, id) IN
  /\ IF old # {} /\ ForeignKeysEnforced /\ (\E c \in ds_contract : c.vehicle_id = id)
     THEN /\ result' = Outcome("deleteVehicle", id, NoData, "reject", "foreign_key", <<>>, 1)
          /\ UNCHANGED ds_vehicle
     ELSE /\ ds_vehicle' = ds_vehicle \ old
          /\ result' = Outcome("deleteVehicle", id, NoData,
                               IF old # {} THEN "true" ELSE "false", "", <<>>, 1)
  /\ UNCHANGED <<usePostgres, now, ds_customer, ds_contract, ds_contract_image, lastID, aux>>

getVehicleById(id) ==
  LET found == RowsById(ds_vehicle, id) IN
  /\ result' = IF found = {}
               THEN Outcome("getVehicleById", id, NoData, "null", "", <<>>, 1)
               ELSE Outcome("getVehicleById", id, NoData, "row", "", <<TheRow(found)>>, 1)
  /\ UNCHANGED <<usePostgres, now, ds_vehicle, ds_customer, ds_contract, ds_contract_image, lastID, aux>>

(***************************************************************************)
(* CustomerService.  Names are strings of characters (tuples), so that     *)
(* LOWER and LIKE can be computed on them.                                 *)
(***************************************************************************)
CustomerCreates(firsts, lasts, phones, addresses) ==
  [first_name : firsts, last_name : lasts, phone_number : phones, address : addresses]

CustomerUpdates(firsts, lasts, phones, addresses) ==
  [first_name : firsts \cup {UNDEFINED}, last_name : lasts \cup {UNDEFINED},
   phone_number : phones \cup {UNDEFINED}, address : addresses \cup {UNDEFINED}]

createCustomerRow(customerData) ==
  [id |-> lastID.customer + 1,
   first_name |-> customerData.first_name,
   last_name |-> customerData.last_name,
   phone_number |-> customerData.phone_number,
   address |-> OrString(customerData.address, NULL),
   created_at |-> now,
   updated_at |-> now]

createCustomer(customerData) ==
  LET row == createCustomerRow(customerData) IN
  /\ lastID.customer < MaxCustomers
  /\ ds_customer' = ds_customer \cup {row}
  /\ lastID' = [lastID EXCEPT !.customer = row.id]
  /\ result' = Outcome("createCustomer", 0, customerData, "row", "", <<row>>,
                       IF usePostgres THEN 1 ELSE 2)
  /\ UNCHANGED <<usePostgres, now, ds_vehicle, ds_contract, ds_contract_image, aux>>

\* (an update that writes the address whether it was supplied or not)
updateCustomerRowReplaced(row, customerData) ==
  [row EXCEPT
     !.first_name = IF customerData.first_name # UNDEFINED THEN customerData.first_name ELSE @,
     !.last_name = IF customerData.last_name # UNDEFINED THEN customerData.last_name ELSE @,
     !.phone_number = IF customerData.phone_number # UNDEFINED THEN customerData.phone_number ELSE @,
     !.address = customerData.address,
     !.updated_at = now]

\* the SET clause: the supplied fields, then always updated_at
updateCustomerRow(row, customerData) ==
  [row EXCEPT
     !.first_name = IF customerData.first_name # UNDEFINED THEN customerData.first_name ELSE @,
     !.last_name = IF customerData.last_name # UNDEFINED THEN customerData.last_name ELSE @,
     !.phone_number = IF customerData.phone_number # UNDEFINED THEN customerData.phone_number ELSE @,
     !.address = IF customerData.address # UNDEFINED THEN customerData.address ELSE @,
     !.updated_at = now]

updateCustomer(id, customerData) ==
  LET old == RowsById(ds_customer, id) IN
  /\ IF old = {}
     THEN /\ result' = Outcome("updateCustomer", id, customerData, "null", "", <<>>, 1)
          /\ UNCHANGED ds_customer
     ELSE LET row == updateCustomerRow(TheRow(old), customerData) IN
          /\ ds_customer' = (ds_customer \ old) \cup {row}
          /\ result' = Outcome("updateCustomer", id, customerData, "row", "", <<row>>,
                               IF usePostgres THEN 1 ELSE 2)
  /\ UNCHANGED <<usePostgres, now, ds_vehicle, ds_contract, ds_contract_image, lastID, aux>>

deleteCustomer(id) ==
  LET old == RowsById(ds_customer, id) IN
  /\ IF old # {} /\ ForeignKeysEnforced /\ (\E c \in ds_contract : c.customer_id = id)
     THEN /\ result' = Outcome("deleteCustomer", id, NoData, "reject", "foreign_key", <<>>, 1)
          /\ UNCHANGED ds_customer
     ELSE /\ ds_customer' = ds_customer \ old
          /\ result' = Outcome("deleteCustomer", id, NoData,
                               IF old # {} THEN "true" ELSE "false", "", <<>>, 1)
  /\ UNCHANGED <<usePostgres, now, ds_vehicle, ds_contract, ds_contract_image, lastID, aux>>

getCustomerById(id) ==
  LET found == RowsById(ds_customer, id) IN
  /\ result' = IF found = {}
               THEN Outcome("getCustomerById", id, NoData, "null", "", <<>>, 1)
               ELSE Outcome("getCustomerById", id, NoData, "row", "", <<TheRow(found)>>, 1)
  /\ UNCHANGED <<usePostgres, now, ds_vehicle, ds_customer, ds_contract, ds_contract_image, lastID, aux>>

(***************************************************************************)
(* ContractService                                                         *)
(***************************************************************************)
ContractCreates(numbers, vehicleIds, customerIds, vins, names, phones, taxes, statuses) ==
  [contract_number : numbers, vehicle_id : vehicleIds, customer_id : customerIds,
   vin_number : vins, customer_name : names, customer_phone : phones,
   tax_amount : taxes, status : statuses]

ContractUpdates(numbers, vehicleIds, customerIds, vins, names, phones, taxes, statuses) ==
  [contract_number : numbers \cup {UNDEFINED}, vehicle_id : vehicleIds \cup {UNDEF_NUM},
   customer_id : customerIds \cup {UNDEF_NUM}, vin_number : vins \cup {UNDEFINED},
   customer_name : names \cup {UNDEFINED}, customer_phone : phones \cup {UNDEFINED},
   tax_amount : taxes \cup {UNDEF_NUM}, status : statuses \cup {UNDEFINED}]

\* vehicle_id / customer_id REFERENCES ds_vehicle(id) / ds_customer(id)
ContractForeignKeyViolation(row) ==
  /\ ForeignKeysEnforced
  /\ \/ RowsById(ds_vehicle, row.vehicle_id) = {}
     \/ RowsById(ds_customer, row.customer_id) = {}

\* the INSERT names every column but tax_amount, which takes its DEFAULT 0
createContractRow(contractData) ==
  [id |-> lastID.contract + 1,
   contract_number |-> contractData.contract_number,
   vehicle_id |-> contractData.vehicle_id,
   customer_id |-> contractData.customer_id,
   vin_number |-> contractData.vin_number,
   customer_name |-> contractData.customer_name,
   customer_phone |-> contractData.customer_phone,
   tax_amount |-> 0,
   status |-> OrString(contractData.status, "active"),
   created_at |-> now,
   updated_at |-> now]

createContract(contractData) ==
  LET row == createContractRow(contractData) IN
  /\ lastID.contract < MaxContracts
  /\ IF ContractNumberUniqueViolation(ds_contract, 0, row.contract_number)
     THEN /\ result' = Outcome("createContract", 0, contractData, "reject", "unique", <<>>, 1)
          /\ UNCHANGED <<ds_contract, lastID>>
     ELSE IF ContractForeignKeyViolation(row)
     THEN /\ result' = Outcome("createContract", 0, contractData, "reject", "foreign_key", <<>>, 1)
          /\ UNCHANGED <<ds_contract, lastID>>
     ELSE /\ ds_contract' = ds_contract \cup {row}
          /\ lastID' = [lastID EXCEPT !.contract = row.id]
          /\ result' = Outcome("createContract", 0, contractData, "row", "", <<row>>,
                               IF usePostgres THEN 1 ELSE 2)
  /\ UNCHANGED <<usePostgres, now, ds_vehicle, ds_customer, ds_contract_image, aux>>

\* Object.keys(updateData).filter(key => updateData[key] !== undefined)
ContractUpdateFields(updateData) ==
  {f \in DOMAIN updateData :
     IF f \in NumericFields THEN updateData[f] # UNDEF_NUM ELSE updateData[f] # UNDEFINED}

\* (an update that leaves the status column as it was)
updateContractRowKeepsStatus(row, updateData) ==
  [f \in DOMAIN row |->
     IF f = "updated_at" THEN now
     ELSE IF f \in ContractUpdateFields(updateData) \ {"status"} THEN updateData[f]
     ELSE row[f]]

\* SET <field> = <value> for each field, then updated_at
updateContractRow(row, updateData) ==
  [f \in DOMAIN row |->
     IF f = "updated_at" THEN now
     ELSE IF f \in ContractUpdateFields(updateData) THEN updateData[f]
     ELSE row[f]]

\* (an update that never takes the early return)
updateContractAlwaysRuns(updateData) == FALSE

\* fields.length === 0: resolve null before any statement
updateContractNoFields(updateData) == ContractUpdateFields(updateData) = {}

updateContract(id, updateData) ==
  LET old == RowsById(ds_contract, id) IN
  /\ IF updateContractNoFields(updateData)
     THEN /\ result' = Outcome("updateContract", id, updateData, "null", "", <<>>, 0)
          /\ UNCHANGED ds_contract
     ELSE IF old = {}
     THEN /\ result' = Outcome("updateContract", id, updateData, "null", "", <<>>, 1)
          /\ UNCHANGED ds_contract
     ELSE LET row == updateContractRow(TheRow(old), updateData) IN
          IF ContractNumberUniqueViolation(ds_contract, id, row.contract_number)
          THEN /\ result' = Outcome("updateContract", id, updateData, "reject", "unique", <<>>, 1)
               /\ UNCHANGED ds_contract
          ELSE IF ContractForeignKeyViolation(row)
          THEN /\ result' = Outcome("updateContract", id, updateData, "reject", "foreign_key", <<>>, 1)
               /\ UNCHANGED ds_contract
          ELSE /\ ds_contract' = (ds_contract \ old) \cup {row}
               /\ result' = Outcome("updateContract", id, updateData, "row", "", <<row>>,
                                    IF usePostgres THEN 1 ELSE 2)
  /\ UNCHANGED <<usePostgres, now, ds_vehicle, ds_customer, ds_contract_image, lastID, aux>>

\* contract_id ... REFERENCES ds_contract(id) ON DELETE CASCADE, where enforced
CascadeImages(images, contractIds) ==
  IF ForeignKeysEnforced
  THEN {i \in images : i.contract_id \notin contractIds}
  ELSE images

deleteContract(id) ==
  LET old == RowsById(ds_contract, id) IN
  /\ ds_contract' = ds_contract \ old
  /\ ds_contract_image' = CascadeImages(ds_contract_image, {r.id : r \in old})
  /\ result' = Outcome("deleteContract", id, NoData,
                       IF old # {} THEN "true" ELSE "false", "", <<>>, 1)
  /\ UNCHANGED <<usePostgres, now, ds_vehicle, ds_customer, lastID, aux>>

(***************************************************************************)
(* ContractService reads.                                                  *)
(***************************************************************************)
\* the v.* and cust.* columns of a LEFT JOIN that matched no row
NullVehicle ==
  [id |-> NULL_NUM, vin_number |-> NULL, mileage |-> NULL_NUM, status |-> NULL,
   created_at |-> NULL_NUM, updated_at |-> NULL_NUM]

NullCustomer ==
  [id |-> NULL_NUM, first_name |-> NULL, last_name |-> NULL, phone_number |-> NULL,
   address |-> NULL, created_at |-> NULL_NUM, updated_at |-> NULL_NUM]

\* the driver builds one object per result row, keyed by column name: of two
\* columns with the same name the later one in the select list is kept
RowObject(earlier, later) ==
  [f \in DOMAIN earlier \cup DOMAIN later |->
     IF f \in DOMAIN later THEN later[f] ELSE earlier[f]]

\* SELECT c.*, v.*, cust.* FROM ds_contract c LEFT JOIN ds_vehicle v ... LEFT JOIN ds_customer cust ...
JoinedRow(c) ==
  LET v == RowsById(ds_vehicle, c.vehicle_id)
      cust == RowsById(ds_customer, c.customer_id)
  IN RowObject(RowObject(c, IF v = {} THEN NullVehicle ELSE TheRow(v)),
               IF cust = {} THEN NullCustomer ELSE TheRow(cust))

\* new Date(x): null is the epoch
ToDate(x) == IF x = NULL_NUM THEN 0 ELSE x

\* (the nested vehicle taking its id from the joined row's id column)
nestedVehicleJoinedId(data) ==
  [id |-> data.id,
   vin_number |-> data.vin_number,
   mileage |-> data.mileage,
   status |-> IF "vehicle_status" \in DOMAIN data THEN data.vehicle_status ELSE UNDEFINED,
   created_at |-> ToDate(IF "vehicle_created_at" \in DOMAIN data
                         THEN data.vehicle_created_at ELSE data.created_at),
   updated_at |-> ToDate(IF "vehicle_updated_at" \in DOMAIN data
                         THEN data.vehicle_updated_at ELSE data.updated_at)]

\* vehicle: { id: data.vehicle_id, ... }
nestedVehicle(data) ==
  [id |-> data.vehicle_id,
   vin_number |-> data.vin_number,
   mileage |-> data.mileage,
   status |-> IF "vehicle_status" \in DOMAIN data THEN data.vehicle_status ELSE UNDEFINED,
   created_at |-> ToDate(IF "vehicle_created_at" \in DOMAIN data
                         THEN data.vehicle_created_at ELSE data.created_at),
   updated_at |-> ToDate(IF "vehicle_updated_at" \in DOMAIN data
                         THEN data.vehicle_updated_at ELSE data.updated_at)]

\* customer: { id: data.customer_id, ... }
nestedCustomer(data) ==
  [id |-> data.customer_id,
   first_name |-> data.first_name,
   last_name |-> data.last_name,
   phone_number |-> data.phone_number,
   address |-> data.address,
   created_at |-> ToDate(IF "customer_created_at" \in DOMAIN data
                         THEN data.customer_created_at ELSE data.created_at),
   updated_at |-> ToDate(IF "customer_updated_at" \in DOMAIN data
                         THEN data.customer_updated_at ELSE data.updated_at)]

\* the response has no tax_amount field
mapToContractDetailResponse(data) ==
  [id |-> data.id,
   contract_number |-> data.contract_number,
   vehicle_id |-> data.vehicle_id,
   customer_id |-> data.customer_id,
   vin_number |-> data.vin_number,
   customer_name |-> data.customer_name,
   customer_phone |-> data.customer_phone,
   status |-> data.status,
   created_at |-> ToDate(data.created_at),
   updated_at |-> ToDate(data.updated_at),
   images |-> <<>>,
   vehicle |-> nestedVehicle(data),
   customer |-> nestedCustomer(data)]

getContractById(id) ==
  LET found == RowsById(ds_contract, id) IN
  /\ result' = IF found = {}
               THEN Outcome("getContractById", id, NoData, "null", "", <<>>, 1)
               ELSE Outcome("getContractById", id, NoData, "row", "",
                            <<mapToContractDetailResponse(JoinedRow(TheRow(found)))>>, 1)
  /\ UNCHANGED <<usePostgres, now, ds_vehicle, ds_customer, ds_contract, ds_contract_image, lastID, aux>>

\* ORDER BY created_at DESC: every order of the rows in which created_at never
\* increases; rows with equal created_at come in an order the store chooses
OrderByCreatedAtDesc(table) ==
  {s \in [1..Cardinality(table) -> table] :
     /\ \A i, j \in DOMAIN s : i # j => s[i] # s[j]
     /\ \A i, j \in DOMAIN s : i < j => s[i].created_at >= s[j].created_at}

\* LIMIT limit OFFSET skip
LimitOffset(s, limit, skip) ==
  SubSeq(s, skip + 1, IF skip + limit < Len(s) THEN skip + limit ELSE Len(s))

\* the results the statement of getAllContracts(skip, limit) can have
getAllContractsRows(skip, limit) ==
  {LimitOffset(s, limit, skip) : s \in OrderByCreatedAtDesc(ds_contract)}

getAllContracts(skip, limit) ==
  /\ \E rows \in getAllContractsRows(skip, limit) :
       result' = Outcome("getAllContracts", 0, [skip |-> skip, limit |-> limit], "rows", "", rows, 1)
  /\ UNCHANGED <<usePostgres, now, ds_vehicle, ds_customer, ds_contract, ds_contract_image, lastID, aux>>

(***************************************************************************)
(* CustomerService.searchCustomersByName.  Names and search texts are      *)
(* tuples of characters.                                                   *)
(***************************************************************************)
\* SQL LOWER() of one character
LowerChar(c) ==
  CASE c = "A" -> "a" [] c = "B" -> "b" [] c = "C" -> "c" [] c = "D" -> "d"
    [] c = "E" -> "e" [] c = "F" -> "f" [] c = "G" -> "g" [] c = "H" -> "h"
    [] c = "I" -> "i" [] c = "J" -> "j" [] c = "K" -> "k" [] c = "L" -> "l"
    [] c = "M" -> "m" [] c = "N" -> "n" [] c = "O" -> "o" [] c = "P" -> "p"
    [] c = "Q" -> "q" [] c = "R" -> "r" [] c = "S" -> "s" [] c = "T" -> "t"
    [] c = "U" -> "u" [] c = "V" -> "v" [] c = "W" -> "w" [] c = "X" -> "x"
    [] c = "Y" -> "y" [] c = "Z" -> "z" [] OTHER -> c

Lower(str) == [i \in DOMAIN str |-> LowerChar(str[i])]

\* str LIKE pattern: % matches any run of characters, _ any one character
RECURSIVE Like(_, _)
Like(str, pattern) ==
  IF pattern = <<>> THEN str = <<>>
  ELSE IF Head(pattern) = "%"
  THEN Like(str, Tail(pattern)) \/ (str # <<>> /\ Like(Tail(str), pattern))
  ELSE /\ str # <<>>
       /\ Head(pattern) = "_" \/ Head(pattern) = Head(str)
       /\ Like(Tail(str), Tail(pattern))

\* WHERE LOWER(first_name) LIKE LOWER('%name%') OR LOWER(last_name) LIKE LOWER('%name%')
searchCustomersByNameHits(name) ==
  LET pattern == <<"%">> \o name \o <<"%">> IN
  {c \in ds_customer :
     \/ Like(Lower(c.first_name), Lower(pattern))
     \/ Like(Lower(c.last_name), Lower(pattern))}

searchCustomersByName(name) ==
  /\ \E rows \in OrderByCreatedAtDesc(searchCustomersByNameHits(name)) :
       result' = Outcome("searchCustomersByName", 0, [name |-> name], "rows", "", rows, 1)
  /\ UNCHANGED <<usePostgres, now, ds_vehicle, ds_customer, ds_contract, ds_contract_image, lastID, aux>>

(***************************************************************************)
(* contract-files: the metadata row of an upload.                          *)
(***************************************************************************)
\* `contracts/${validatedData.contract_id}/files/${Date.now()}_${originalname}`
filePath(contract_id) == <<"contracts", contract_id, "files", now>>

insertImageRow(contract_id, image_path) ==
  LET row == [id |-> lastID.image + 1, contract_id |-> contract_id, image_path |-> image_path] IN
  /\ lastID.image < MaxImages
  /\ IF ForeignKeysEnforced /\ RowsById(ds_contract, contract_id) = {}
     THEN /\ result' = Outcome("insertContractImage", contract_id, NoData, "reject", "foreign_key", <<>>, 1)
          /\ UNCHANGED <<ds_contract_image, lastID>>
     ELSE /\ ds_contract_image' = ds_contract_image \cup {row}
          /\ lastID' = [lastID EXCEPT !.image = row.id]
          /\ result' = Outcome("insertContractImage", contract_id, NoData, "row", "", <<row>>, 1)
  /\ pool' = IF usePostgres THEN withClient(result'.ret = "reject") ELSE pool
  /\ UNCHANGED <<usePostgres, now, inflight, ds_vehicle, ds_customer, ds_contract, pager, seed, server, schema>>

\* the INSERT alone
insertContractImage(contract_id) ==
  insertImageRow(contract_id, filePath(contract_id)) /\ UNCHANGED spaces

(***************************************************************************)
(* GET /api/contracts?skip&limit, and a client that reads the list page    *)
(* by page: skip = 0, limit, 2 * limit, ... until a page comes short.      *)
(***************************************************************************)
NoPager == [limit |-> 0, skip |-> 0, pages |-> <<>>, done |-> FALSE]

Paging == pager.limit > 0 /\ ~pager.done

pagerStart(limit) ==
  /\ pager.limit = 0
  /\ pager' = [limit |-> limit, skip |-> 0, pages |-> <<>>, done |-> FALSE]
  /\ UNCHANGED <<usePostgres, now, spaces, inflight, ds_vehicle, ds_customer, ds_contract, ds_contract_image, lastID, result, seed, server, schema, pool>>

\* parseInt(req.query.skip) || 0, parseInt(req.query.limit) || 100
pagerNext ==
  /\ Paging
  /\ LET skip == OrNumber(pager.skip, 0)
         limit == OrNumber(pager.limit, 100)
     IN \E rows \in getAllContractsRows(skip, limit) :
          /\ result' = Outcome("getAllContracts", 0, [skip |-> skip, limit |-> limit], "rows", "", rows, 1)
          /\ pager' = [pager EXCEPT !.pages = Append(@, rows),
                                    !.skip = @ + pager.limit,
                                    !.done = Len(rows) < pager.limit]
  /\ UNCHANGED <<usePostgres, now, spaces, inflight, ds_vehicle, ds_customer, ds_contract, ds_contract_image, lastID, seed, server, schema, pool>>

(***************************************************************************)
(* Request bodies and their validation.  A JSON value is a string, a       *)
(* number or absent; a body holds one value per field.                     *)
(***************************************************************************)
Str(s) == [t |-> "string", s |-> s, n |-> 0]
Num(n) == [t |-> "number", s |-> "", n |-> n]
Missing == [t |-> "undefined", s |-> "", n |-> 0]

zString(j, min) == j.t = "string" /\ Len(j.s) >= min
zStringLength(j, len) == j.t = "string" /\ Len(j.s) = len
zNumberMin(j, min) == j.t = "number" /\ j.n >= min
zNumberPositive(j) == j.t = "number" /\ j.n > 0
zOptional(j, valid) == j.t = "undefined" \/ valid

\* the strings new Date(val) turns into a date; any other gives NaN
DateStrings == {"2024-01-01"}
isNaNDate(val) == val \notin DateStrings

\* the transform of start_date / end_date throws Error('Invalid date format')
\* out of parse(); it runs once the value passed z.union([z.string(), z.date()])
DateTransformThrows(j) == j.t = "string" /\ isNaNDate(j.s)

\* the optional date of ContractUpdateSchema: if (!val) return undefined
OptionalDateTransformThrows(j) == j.t = "string" /\ j.s # "" /\ isNaNDate(j.s)

\* the fields with an issue in the ZodError of VehicleCreateSchema.parse
VehicleCreateSchemaIssues(body) ==
  {f \in DOMAIN body :
     CASE f = "vin_number" -> ~zStringLength(body[f], 17)
       [] f = "mileage" -> ~zOptional(body[f], zNumberMin(body[f], 0))
       [] f = "status" -> ~zOptional(body[f], body[f].t = "string")}

\* the parsed value: .optional().default(...) fills the absent fields
VehicleCreateSchemaData(body) ==
  [vin_number |-> body.vin_number.s,
   mileage |-> IF body.mileage.t = "undefined" THEN 0 ELSE body.mileage.n,
   status |-> IF body.status.t = "undefined" THEN "available" ELSE body.status.s]

VehicleUpdateSchemaIssues(body) ==
  {f \in DOMAIN body :
     CASE f = "vin_number" -> ~zOptional(body[f], zStringLength(body[f], 17))
       [] f = "mileage" -> ~zOptional(body[f], zNumberMin(body[f], 0))
       [] f = "status" -> ~zOptional(body[f], body[f].t = "string")}

VehicleUpdateSchemaData(body) ==
  [vin_number |-> IF body.vin_number.t = "undefined" THEN UNDEFINED ELSE body.vin_number.s,
   mileage |-> IF body.mileage.t = "undefined" THEN UNDEF_NUM ELSE body.mileage.n,
   status |-> IF body.status.t = "undefined" THEN UNDEFINED ELSE body.status.s]

ContractCreateSchemaIssues(body) ==
  {f \in DOMAIN body :
     CASE f \in {"contract_number", "customer_name", "customer_phone"} -> ~zString(body[f], 1)
       [] f \in {"vehicle_id", "customer_id"} -> ~zNumberPositive(body[f])
       [] f = "vin_number" -> ~zStringLength(body[f], 17)
       [] f = "start_date" -> body[f].t # "string"
       [] f = "status" -> ~zOptional(body[f], body[f].t = "string")}

\* tax_amount is no key of the schema: z.object strips it
ContractCreateSchemaData(body) ==
  [contract_number |-> body.contract_number.s,
   vehicle_id |-> body.vehicle_id.n,
   customer_id |-> body.customer_id.n,
   vin_number |-> body.vin_number.s,
   customer_name |-> body.customer_name.s,
   customer_phone |-> body.customer_phone.s,
   tax_amount |-> UNDEF_NUM,
   status |-> IF body.status.t = "undefined" THEN UNDEFINED ELSE body.status.s]

ContractUpdateSchemaIssues(body) ==
  {f \in DOMAIN body :
     CASE f \in {"contract_number", "customer_name", "customer_phone"}
            -> ~zOptional(body[f], zString(body[f], 1))
       [] f \in {"vehicle_id", "customer_id"} -> ~zOptional(body[f], zNumberPositive(body[f]))
       [] f = "vin_number" -> ~zOptional(body[f], zStringLength(body[f], 17))
       [] f = "start_date" -> ~zOptional(body[f], body[f].t = "string")
       [] f = "status" -> ~zOptional(body[f], body[f].t = "string")}

ContractUpdateSchemaData(body) ==
  [contract_number |-> IF body.contract_number.t = "undefined" THEN UNDEFINED
                       ELSE body.contract_number.s,
   vehicle_id |-> IF body.vehicle_id.t = "undefined" THEN UNDEF_NUM ELSE body.vehicle_id.n,
   customer_id |-> IF body.customer_id.t = "undefined" THEN UNDEF_NUM ELSE body.customer_id.n,
   vin_number |-> IF body.vin_number.t = "undefined" THEN UNDEFINED ELSE body.vin_number.s,
   customer_name |-> IF body.customer_name.t = "undefined" THEN UNDEFINED
                     ELSE body.customer_name.s,
   customer_phone |-> IF body.customer_phone.t = "undefined" THEN UNDEFINED
                      ELSE body.customer_phone.s,
   tax_amount |-> UNDEF_NUM,
   status |-> IF body.status.t = "undefined" THEN UNDEFINED ELSE body.status.s]

(***************************************************************************)
(* Route handlers: parse the body, then call the service.  A handler that  *)
(* does not reach the service leaves in result what parse() threw.         *)
(***************************************************************************)
\* catch (error): parse() threw before the service was called
parseThrew(route, body, ret, err) ==
  /\ result' = Outcome(route, 0, body, ret, err, <<>>, 0)
  /\ UNCHANGED <<usePostgres, now, ds_vehicle, ds_customer, ds_contract, ds_contract_image, lastID, aux>>

postVehicleNew(body) ==
  IF VehicleCreateSchemaIssues(body) # {}
  THEN parseThrew("postVehicleNew", body, "ZodError", "Validation error")
  ELSE createVehicle(VehicleCreateSchemaData(body))

putVehicle(id, body) ==
  IF VehicleUpdateSchemaIssues(body) # {}
  THEN parseThrew("putVehicle", body, "ZodError", "Validation error")
  ELSE updateVehicle(id, VehicleUpdateSchemaData(body))

postContractNew(body) ==
  IF DateTransformThrows(body.start_date)
  THEN parseThrew("postContractNew", body, "Error", "Invalid date format")
  ELSE IF ContractCreateSchemaIssues(body) # {}
  THEN parseThrew("postContractNew", body, "ZodError", "Validation error")
  ELSE createContract(ContractCreateSchemaData(body))

putContract(id, body) ==
  IF OptionalDateTransformThrows(body.start_date)
  THEN parseThrew("putContract", body, "Error", "Invalid date format")
  ELSE IF ContractUpdateSchemaIssues(body) # {}
  THEN parseThrew("putContract", body, "ZodError", "Validation error")
  ELSE updateContract(id, ContractUpdateSchemaData(body))

\* what s3Client.send(uploadCommand) can do: succeed, or throw one of its errors
S3Outcomes == {"ok", "AccessDenied", "connect ETIMEDOUT"}

\* POST /upload: the configuration check, the upload to the object store, then
\* the metadata row; every throw lands in the handler's catch
postUpload(contract_id, configured, s3) ==
  IF ~configured
  THEN parseThrew("postUpload", NoData, "Error",
                  "Missing required DigitalOcean Spaces environment variables")
  ELSE IF s3 # "ok"
  THEN parseThrew("postUpload", NoData, "Error", s3)
  ELSE /\ spaces' = spaces \cup {filePath(contract_id)}
       /\ insertImageRow(contract_id, filePath(contract_id))

\* upload.single('file') runs before the handler: a file the fileFilter
\* refuses or one over limits.fileSize makes multer call next(err), which
\* Express answers itself (500: the errors carry no status); the handler,
\* and with it its catch, does not run
MulterErrors == {"Invalid file type. Only images, PDFs, and documents are allowed.", "File too large"}

Files == {"none", "file"} \cup MulterErrors

\* FileUploadSchema: contract_id and uploaded_by are strings of length >= 1
FileUploadSchemaIssues(body) ==
  {f \in {"contract_id", "uploaded_by"} : ~zString(body[f], 1)}

UploadBodies ==
  [contract_id : {Str(""), Str("1"), Str("2")}, uploaded_by : {Missing, Str("admin")}]

\* parseInt(validatedData.contract_id)
parseIntId(v) == IF v = Str("1") THEN 1 ELSE 2

postUploadRoute(file, body, configured, s3) ==
  IF file \in MulterErrors
  THEN parseThrew("upload.single", NoData, "next(err)", file)
  ELSE IF file = "none"
  THEN parseThrew("postUpload", NoData, "NoFile", "No file uploaded")
  ELSE IF FileUploadSchemaIssues(body) # {}
  THEN parseThrew("postUpload", NoData, "ZodError", "Validation error")
  ELSE postUpload(parseIntId(body.contract_id), configured, s3)

\* the route that produced the outcome in result
routeOf(op) ==
  CASE op \in {"postVehicleNew", "createVehicle"} -> "POST /api/vehicles/new"
    [] op \in {"postContractNew", "createContract"} -> "POST /api/contracts/new"
    [] op \in {"putVehicle", "updateVehicle"} -> "PUT /api/vehicles/:id"
    [] op \in {"putContract", "updateContract"} -> "PUT /api/contracts/:id"
    [] op \in {"upload.single", "postUpload", "insertContractImage"} -> "POST /api/contract-files/upload"
    [] OTHER -> op

\* (a router that answers a successful delete with 200)
responseStatusDelete200 ==
  CASE result.ret = "ZodError" -> 400
    [] result.ret \in {"Error", "reject"} -> 500
    [] result.ret = "null" -> 404
    [] result.ret = "false" -> 404
    [] result.ret = "NoFile" -> 400
    [] result.ret = "next(err)" -> 500
    [] result.ret = "row" /\ result.op \in {"createVehicle", "createCustomer", "createContract",
                                             "insertContractImage"} -> 201
    [] OTHER -> 200

\* the status of the response the handler sends for the outcome in result
responseStatus ==
  CASE result.ret = "ZodError" -> 400
    [] result.ret \in {"Error", "reject"} -> 500
    [] result.ret = "null" -> 404
    [] result.ret = "false" -> 404
    [] result.ret = "true" -> 204
    [] result.ret = "NoFile" -> 400
    [] result.ret = "next(err)" -> 500
    [] result.ret = "row" /\ result.op \in {"createVehicle", "createCustomer", "createContract",
                                             "insertContractImage"} -> 201
    [] OTHER -> 200

\* the body of a 500 response: the upload handler adds the error's message
errorBody ==
  IF routeOf(result.op) = "POST /api/contract-files/upload"
  THEN [error |-> "Internal server error", details |-> result.err]
  ELSE [error |-> "Internal server error", details |-> UNDEFINED]

(***************************************************************************)
(* seedSampleData.  On PostgreSQL one client counts both tables and sends  *)
(* one multi-row INSERT per empty table; an error is logged and ends the   *)
(* call.  On SQLite the count callbacks issue one db.run per sample row    *)
(* and the promise resolves as soon as they are issued: the inserts run    *)
(* afterwards, each on its own, and a failing one is only logged.          *)
(***************************************************************************)
SampleVehicles ==
  << [vin_number |-> "1HGBH41JXMN109186", mileage |-> 15000, status |-> "available"],
     [vin_number |-> "2T1BURHE0JC123456", mileage |-> 25000, status |-> "available"],
     [vin_number |-> "3VWDX7AJ5DM123789", mileage |-> 35000, status |-> "available"],
     [vin_number |-> "4T1B11HK5JU123456", mileage |-> 8000, status |-> "available"],
     [vin_number |-> "5NPE34AF5FH123789", mileage |-> 18000, status |-> "available"] >>

SampleCustomers ==
  << [first_name |-> <<"J", "o", "h", "n">>, last_name |-> <<"S", "m", "i", "t", "h">>,
      phone_number |-> "555-0101", address |-> "123 Main St, Anytown, USA"],
     [first_name |-> <<"S", "a", "r", "a", "h">>, last_name |-> <<"J", "o", "h", "n", "s", "o", "n">>,
      phone_number |-> "555-0102", address |-> "456 Oak Ave, Somewhere, USA"],
     [first_name |-> <<"M", "i", "c", "h", "a", "e", "l">>, last_name |-> <<"B", "r", "o", "w", "n">>,
      phone_number |-> "555-0103", address |-> "789 Pine Rd, Elsewhere, USA"],
     [first_name |-> <<"E", "m", "i", "l", "y">>, last_name |-> <<"D", "a", "v", "i", "s">>,
      phone_number |-> "555-0104", address |-> "321 Elm St, Nowhere, USA"],
     [first_name |-> <<"D", "a", "v", "i", "d">>, last_name |-> <<"W", "i", "l", "s", "o", "n">>,
      phone_number |-> "555-0105", address |-> "654 Maple Dr, Anywhere, USA"] >>

\* the sample rows the model inserts: the first MaxSeedRows of each list
SeedRows == 1..MaxSeedRows

NoSeed == [calls |-> 0, pending |-> {}]

\* (a seeding that inserts whatever the table holds)
seedUnguarded(table) == TRUE

\* count === '0' on PostgreSQL, count === 0 on SQLite
seedNeeded(table) == table = {}

seedVehicleRow(k, id) ==
  [id |-> id,
   vin_number |-> SampleVehicles[k].vin_number,
   mileage |-> SampleVehicles[k].mileage,
   status |-> SampleVehicles[k].status,
   created_at |-> now,
   updated_at |-> now]

seedCustomerRow(k, id) ==
  [id |-> id,
   first_name |-> SampleCustomers[k].first_name,
   last_name |-> SampleCustomers[k].last_name,
   phone_number |-> SampleCustomers[k].phone_number,
   address |-> SampleCustomers[k].address,
   created_at |-> now,
   updated_at |-> now]

seedPostgresData ==
  LET vehicles == seedNeeded(ds_vehicle)
      customers == seedNeeded(ds_customer)
      \* the multi-row INSERT fails as a whole; the catch logs it and the
      \* customers are not reached
      failed == vehicles /\ \E k \in SeedRows :
                  VinUniqueViolation(ds_vehicle, 0, SampleVehicles[k].vin_number)
      v == vehicles /\ ~failed
      c == customers /\ ~failed
  IN
  /\ ds_vehicle' = IF v THEN ds_vehicle \cup {seedVehicleRow(k, lastID.vehicle + k) : k \in SeedRows}
                   ELSE ds_vehicle
  /\ ds_customer' = IF c THEN ds_customer \cup {seedCustomerRow(k, lastID.customer + k) : k \in SeedRows}
                    ELSE ds_customer
  /\ lastID' = [lastID EXCEPT !.vehicle = IF v THEN @ + MaxSeedRows ELSE @,
                              !.customer = IF c THEN @ + MaxSeedRows ELSE @]
  /\ seed' = [seed EXCEPT !.calls = @ + 1]
  /\ pool' = withClient(failed)
  /\ result' = Outcome("seedSampleData", 0, NoData, "void", IF failed THEN "logged" ELSE "", <<>>,
                       2 + (IF vehicles THEN 1 ELSE 0) + (IF c THEN 1 ELSE 0))

seedSQLiteData ==
  LET call == seed.calls + 1
      vehicles == IF seedNeeded(ds_vehicle)
                  THEN {[table |-> "ds_vehicle", k |-> k, call |-> call] : k \in SeedRows}
                  ELSE {}
      customers == IF seedNeeded(ds_customer)
                   THEN {[table |-> "ds_customer", k |-> k, call |-> call] : k \in SeedRows}
                   ELSE {}
  IN
  /\ seed' = [calls |-> call, pending |-> seed.pending \cup vehicles \cup customers]
  /\ result' = Outcome("seedSampleData", 0, NoData, "void", "", <<>>, 2)
  /\ UNCHANGED <<ds_vehicle, ds_customer, lastID, pool>>

seedSampleData ==
  /\ seed.calls < MaxSeedCalls
  /\ IF usePostgres THEN seedPostgresData ELSE seedSQLiteData
  /\ UNCHANGED <<usePostgres, now, spaces, inflight, ds_contract, ds_contract_image, pager, server, schema>>

\* one issued db.run executes; the database runs them in no fixed order
seedRun ==
  \E q \in seed.pending :
    /\ seed' = [seed EXCEPT !.pending = @ \ {q}]
    /\ IF q.table = "ds_vehicle"
       THEN IF VinUniqueViolation(ds_vehicle, 0, SampleVehicles[q.k].vin_number)
            THEN /\ result' = Outcome("seedRun", 0, NoData, "void", "logged", <<>>, 1)
                 /\ UNCHANGED <<ds_vehicle, ds_customer, lastID>>
            ELSE LET row == seedVehicleRow(q.k, lastID.vehicle + 1) IN
                 /\ ds_vehicle' = ds_vehicle \cup {row}
                 /\ lastID' = [lastID EXCEPT !.vehicle = row.id]
                 /\ result' = Outcome("seedRun", 0, NoData, "void", "", <<row>>, 1)
                 /\ UNCHANGED ds_customer
       ELSE LET row == seedCustomerRow(q.k, lastID.customer + 1) IN
            /\ ds_customer' = ds_customer \cup {row}
            /\ lastID' = [lastID EXCEPT !.customer = row.id]
            /\ result' = Outcome("seedRun", 0, NoData, "void", "", <<row>>, 1)
            /\ UNCHANGED ds_vehicle
    /\ UNCHANGED <<usePostgres, now, spaces, inflight, ds_contract, ds_contract_image, pager, server, schema, pool>>

(***************************************************************************)
(* Schema bootstrap (init-db).  initializePostgres and initializeSQLite run *)
(* a fixed list of statements: CREATE TABLE IF NOT EXISTS for each table,   *)
(* and ALTER TABLE ... ADD COLUMN for the columns added after the first     *)
(* release.  Which statements fail is an input of the run.                  *)
(***************************************************************************)
TableNames == {"ds_user", "ds_vehicle", "ds_customer", "ds_contract", "ds_contract_image"}

CreateColumns ==
  [ds_user |-> {"id", "email", "wechat_id", "name", "phone", "role", "hashed_password",
                "is_active", "created_at"},
   ds_vehicle |-> {"id", "vin_number", "make", "model", "year", "color", "mileage", "price",
                   "status", "created_at", "updated_at"},
   ds_customer |-> {"id", "first_name", "last_name", "phone_number", "email", "address",
                    "created_at", "updated_at"},
   ds_contract |-> {"id", "contract_number", "vehicle_id", "customer_id", "vin_number",
                    "customer_name", "customer_phone", "start_date", "end_date",
                    "payment_amount", "tax_amount", "deposit_amount", "status", "created_by",
                    "created_at", "updated_at"},
   ds_contract_image |-> {"id", "contract_id", "file_name", "file_url", "file_size", "file_type",
                          "description", "uploaded_by", "image_path", "uploaded_at"}]

CreateTable(t) == [kind |-> "create", table |-> t, column |-> ""]
AddColumn(t, c) == [kind |-> "alter", table |-> t, column |-> c]

PostgresSteps ==
  << CreateTable("ds_user"),
     CreateTable("ds_vehicle"),
     AddColumn("ds_vehicle", "mileage"),
     AddColumn("ds_vehicle", "price"),
     AddColumn("ds_vehicle", "status"),
     AddColumn("ds_vehicle", "updated_at"),
     CreateTable("ds_customer"),
     AddColumn("ds_customer", "address"),
     AddColumn("ds_customer", "updated_at"),
     CreateTable("ds_contract"),
     AddColumn("ds_contract", "tax_amount"),
     CreateTable("ds_contract_image") >>

SQLiteSteps ==
  << CreateTable("ds_user"),
     CreateTable("ds_vehicle"),
     CreateTable("ds_customer"),
     CreateTable("ds_contract"),
     AddColumn("ds_contract", "tax_amount"),
     CreateTable("ds_contract_image") >>

Steps == IF usePostgres THEN PostgresSteps ELSE SQLiteSteps

\* a store never started on, a store of the first release, a store of today
NoSchema == [t \in TableNames |-> {}]
FullSchema == [t \in TableNames |-> CreateColumns[t]]
FirstSchema ==
  [t \in TableNames |->
     CreateColumns[t] \ {st.column : st \in {x \in {PostgresSteps[i] : i \in DOMAIN PostgresSteps} :
                                               x.kind = "alter" /\ x.table = t}}]

\* (an ADD COLUMN whose error is not caught)
addColumnRethrown == FALSE

\* try { ALTER ... } catch { console.log } on PostgreSQL, a callback that
\* only logs on SQLite
addColumnCaught == TRUE

\* CREATE TABLE IF NOT EXISTS; ADD COLUMN IF NOT EXISTS on PostgreSQL, on
\* SQLite ADD COLUMN of a column that exists is a 'duplicate column name'
\* error, which the callback ignores
applyStep(sch, st) ==
  IF st.kind = "create"
  THEN IF sch[st.table] = {} THEN [sch EXCEPT ![st.table] = CreateColumns[st.table]] ELSE sch
  ELSE [sch EXCEPT ![st.table] = @ \cup {st.column}]

\* the statements from step i on; step 0 is the connection (pgPool.connect,
\* initSqlite).  A failing CREATE TABLE or connection ends the run.
RECURSIVE runSteps(_, _, _)
runSteps(i, sch, fails) ==
  IF i > Len(Steps) THEN [schema |-> sch, ok |-> TRUE, stmts |-> Len(Steps)]
  ELSE IF i \in fails
       THEN IF i > 0 /\ Steps[i].kind = "alter" /\ addColumnCaught
            THEN runSteps(i + 1, sch, fails)
            ELSE [schema |-> sch, ok |-> FALSE, stmts |-> i]
       ELSE runSteps(i + 1, IF i = 0 THEN sch ELSE applyStep(sch, Steps[i]), fails)

Bootstrap(fails) == runSteps(0, schema, fails)

AddColumnSteps == {i \in DOMAIN Steps : Steps[i].kind = "alter"}
FatalSteps == {0} \cup {i \in DOMAIN Steps : Steps[i].kind = "create"}

(***************************************************************************)
(* The process.  Node evaluates the imports of index.ts first, and with    *)
(* them the module scope of every route file; then startServer runs:       *)
(* initializeDatabase, setupRoutes, seedSampleData, app.listen.  Any error *)
(* inside startServer ends in process.exit(1); an error thrown while the   *)
(* imports are evaluated is uncaught and ends the process.                 *)
(***************************************************************************)
NotStarted == [phase |-> "import", sqliteDb |-> "null", initialized |-> FALSE, services |-> {}]

Listening == server.phase = "listening"

\* getSqliteDb: if (!sqliteDb) throw new Error('SQLite database not initialized')
getSqliteDbThrows == server.sqliteDb = "null"

\* constructor(usePostgres): this.db = usePostgres ? pgPool : getSqliteDb()
constructorThrows(postgres) == ~postgres /\ getSqliteDbThrows

\* routes/customers.ts, module scope:
\* const customerService = new CustomerService(process.env.USE_SQLITE !== 'true')
importRoutes ==
  /\ server.phase = "import"
  /\ server' = IF constructorThrows(usePostgres)
               THEN [server EXCEPT !.phase = "uncaught"]
               ELSE [server EXCEPT !.phase = "startServer",
                                   !.services = @ \cup {"CustomerService"}]
  /\ UNCHANGED <<usePostgres, now, spaces, inflight, ds_vehicle, ds_customer, ds_contract, ds_contract_image,
                 lastID, result, pager, seed, schema, pool>>

\* await initializeDatabase(usePostgres) in startServer: the connection, then
\* the steps; initSqlite assigns sqliteDb at once and resolves or rejects
\* when the file has been opened or not
initializeDatabase(fails) ==
  LET run == Bootstrap(fails) IN
  /\ server.phase = "startServer"
  /\ schema' = run.schema
  /\ pool' = IF usePostgres /\ 0 \notin fails THEN withClient(~run.ok) ELSE pool
  /\ server' = [server EXCEPT
                  !.sqliteDb = IF usePostgres THEN @ ELSE "Database",
                  !.initialized = run.ok,
                  !.phase = IF run.ok THEN "initialized" ELSE "exit"]
  /\ result' = Outcome("initializeDatabase", 0, [fails |-> fails],
                       IF run.ok THEN "void" ELSE "reject", "", <<>>, run.stmts)
  /\ UNCHANGED <<usePostgres, now, spaces, inflight, ds_vehicle, ds_customer, ds_contract, ds_contract_image,
                 lastID, pager, seed>>

\* the process is stopped (SIGTERM, SIGINT, or the exit above) and started
\* again on the same store; inserts issued and not yet run are lost
restart ==
  /\ server.phase \in {"listening", "exit"}
  /\ server' = [NotStarted EXCEPT !.phase = "startServer"]
  /\ seed' = NoSeed
  /\ pool' = NoClients
  /\ UNCHANGED <<usePostgres, now, spaces, inflight, ds_vehicle, ds_customer, ds_contract, ds_contract_image,
                 lastID, result, pager, schema>>

\* setupRoutes: createVehiclesRouter constructs its VehicleService, the
\* contracts router constructs nothing yet
setupRoutes ==
  /\ server.phase = "initialized"
  /\ server' = IF constructorThrows(usePostgres)
               THEN [server EXCEPT !.phase = "exit"]
               ELSE [server EXCEPT !.phase = "routes",
                                   !.services = @ \cup {"VehicleService"}]
  /\ UNCHANGED <<usePostgres, now, spaces, inflight, ds_vehicle, ds_customer, ds_contract, ds_contract_image,
                 lastID, result, pager, seed, schema, pool>>

\* app.listen, once the seedSampleData of startServer has resolved
listen ==
  /\ server.phase = "routes"
  /\ seed.calls > 0
  /\ server' = [server EXCEPT !.phase = "listening"]
  /\ UNCHANGED <<usePostgres, now, spaces, inflight, ds_vehicle, ds_customer, ds_contract, ds_contract_image,
                 lastID, result, pager, seed, schema, pool>>

\* the usePostgres each service is constructed with: routes/vehicles.ts and
\* routes/customers.ts pass process.env.USE_SQLITE !== 'true', the contracts
\* router calls new ContractService() and gets the default, true
constructedWith(service) == IF service = "ContractService" THEN TRUE ELSE usePostgres

\* GET /api/contracts: getContractService() constructs the service on the
\* first request, new ContractService() with the default usePostgres = true
getContracts(skip, limit) ==
  /\ server.phase = "listening"
  /\ IF constructorThrows(TRUE)
     THEN /\ result' = Outcome("getAllContracts", 0, [skip |-> skip, limit |-> limit],
                               "Error", "SQLite database not initialized", <<>>, 0)
          /\ UNCHANGED server
     ELSE /\ server' = [server EXCEPT !.services = @ \cup {"ContractService"}]
          /\ IF usePostgres
             THEN \E rows \in getAllContractsRows(skip, limit) :
                    result' = Outcome("getAllContracts", 0, [skip |-> skip, limit |-> limit],
                                      "rows", "", rows, 1)
             \* with USE_SQLITE the query still goes to pgPool: the database at
             \* DATABASE_URL answers from its own tables, or cannot be reached
             ELSE \E ret \in {"rows", "reject"} :
                    result' = Outcome("getAllContracts", 0, [skip |-> skip, limit |-> limit], ret,
                                      IF ret = "reject" THEN "connect ECONNREFUSED" ELSE "", <<>>, 1)
  /\ UNCHANGED <<usePostgres, now, spaces, inflight, ds_vehicle, ds_customer, ds_contract, ds_contract_image,
                 lastID, pager, seed, schema, pool>>

\* POST /migrate-db: on PostgreSQL one client runs the six ADD COLUMN IF NOT
\* EXISTS statements in a row; the first that fails throws, past the finally
\* and into the handler's catch
MigrateSteps ==
  << AddColumn("ds_vehicle", "mileage"),
     AddColumn("ds_vehicle", "price"),
     AddColumn("ds_vehicle", "status"),
     AddColumn("ds_vehicle", "updated_at"),
     AddColumn("ds_customer", "address"),
     AddColumn("ds_customer", "updated_at") >>

RECURSIVE migrate(_, _, _)
migrate(i, sch, fails) ==
  IF i > Len(MigrateSteps) THEN [schema |-> sch, threw |-> FALSE]
  ELSE IF i \in fails THEN [schema |-> sch, threw |-> TRUE]
  ELSE migrate(i + 1, applyStep(sch, MigrateSteps[i]), fails)

migrateDb(fails) ==
  /\ Listening
  /\ IF ~usePostgres
     THEN /\ result' = Outcome("migrateDb", 0, [fails |-> fails], "void", "", <<>>, 0)
          /\ UNCHANGED <<schema, pool>>
     ELSE IF 0 \in fails
     THEN /\ result' = Outcome("migrateDb", 0, [fails |-> fails], "Error", "connect", <<>>, 0)
          /\ UNCHANGED <<schema, pool>>
     ELSE LET run == migrate(1, schema, fails) IN
          /\ schema' = run.schema
          /\ pool' = withClient(run.threw)
          /\ result' = Outcome("migrateDb", 0, [fails |-> fails],
                               IF run.threw THEN "Error" ELSE "void", "", <<>>, 1)
  /\ UNCHANGED <<usePostgres, now, spaces, inflight, ds_vehicle, ds_customer, ds_contract, ds_contract_image,
                 lastID, pager, seed, server>>

\* the rows of a set in some order (ORDER BY uploaded_at DESC, a column the
\* model does not keep)
Orderings(S) ==
  {f \in [1..Cardinality(S) -> S] : \A i, j \in 1..Cardinality(S) : i # j => f[i] # f[j]}

\* GET /api/contract-files/contract/:contractId
listFiles(contractId, queryThrows) ==
  /\ Listening
  /\ IF queryThrows
     THEN result' = Outcome("listFiles", contractId, NoData, "Error", "query", <<>>, 1)
     ELSE \E rows \in Orderings({r \in ds_contract_image : r.contract_id = contractId}) :
            result' = Outcome("listFiles", contractId, NoData, "rows", "", rows, 1)
  /\ pool' = IF usePostgres THEN withClient(queryThrows) ELSE pool
  /\ UNCHANGED <<usePostgres, now, spaces, inflight, ds_vehicle, ds_customer, ds_contract, ds_contract_image,
                 lastID, pager, seed, server, schema>>

(***************************************************************************)
(* The text of the statement a service call sends, as the list of its      *)
(* pieces: fixed SQL, column names, and placeholders ($n on PostgreSQL, ?  *)
(* on SQLite).  The values travel in the parameter array.  On SQLite a     *)
(* create or update sends a fixed SELECT ... WHERE id = ? afterwards.      *)
(***************************************************************************)
Dollar(n) == <<"$1", "$2", "$3", "$4", "$5", "$6", "$7", "$8", "$9", "$10">>[n]

Placeholder(n) == IF usePostgres THEN Dollar(n) ELSE "?"

\* (a SET clause that writes the value into the text)
setInterpolated(value, n) == value

\* updateFields.push(`vin_number = $${paramCount++}`); values.push(...)
setBound(value, n) == Placeholder(n)

\* the order of the if-blocks of updateVehicle and updateCustomer, and of the
\* keys of the object ContractUpdateSchema.parse returns
VehicleUpdateOrder == <<"vin_number", "mileage", "status">>
CustomerUpdateOrder == <<"first_name", "last_name", "phone_number", "address">>
ContractUpdateOrder == <<"contract_number", "vehicle_id", "customer_id", "vin_number",
                         "customer_name", "customer_phone", "tax_amount", "status">>

SuppliedFields(order, data) == SelectSeq(order, LAMBDA f : f \in ContractUpdateFields(data))

RECURSIVE setClause(_, _, _)
setClause(fields, data, n) ==
  IF fields = <<>> THEN <<>>
  ELSE <<Head(fields), "=", setBound(data[Head(fields)], n)>> \o setClause(Tail(fields), data, n + 1)

\* updateVehicle, updateCustomer: the supplied fields, updated_at, the id
updateEntityText(table, order, data) ==
  LET fields == SuppliedFields(order, data) IN
  <<"UPDATE", table, "SET">> \o setClause(fields, data, 1)
    \o <<"updated_at", "=", Placeholder(Len(fields) + 1), "WHERE id =", Placeholder(Len(fields) + 2)>>
    \o (IF usePostgres THEN <<"RETURNING *">> ELSE <<>>)

\* updateContract: updated_at is $1 on PostgreSQL, the fields follow from $2;
\* no statement at all when no field is supplied
updateContractText(data) ==
  LET fields == SuppliedFields(ContractUpdateOrder, data) IN
  IF fields = <<>> THEN <<>>
  ELSE <<"UPDATE", "ds_contract", "SET">> \o setClause(fields, data, IF usePostgres THEN 2 ELSE 1)
         \o <<"updated_at", "=", Placeholder(IF usePostgres THEN 1 ELSE Len(fields) + 1),
              "WHERE id =", Placeholder(Len(fields) + 2)>>
         \o (IF usePostgres THEN <<"RETURNING *">> ELSE <<>>)

byIdText(verb, table) == <<verb, table, "WHERE id =", Placeholder(1)>>

QueryText(r) ==
  CASE r.op = "updateVehicle" -> updateEntityText("ds_vehicle", VehicleUpdateOrder, r.data)
    [] r.op = "updateCustomer" -> updateEntityText("ds_customer", CustomerUpdateOrder, r.data)
    [] r.op = "updateContract" -> updateContractText(r.data)
    [] r.op = "getVehicleById" -> byIdText("SELECT * FROM", "ds_vehicle")
    [] r.op = "getCustomerById" -> byIdText("SELECT * FROM", "ds_customer")
    [] r.op = "deleteVehicle" -> byIdText("DELETE FROM", "ds_vehicle")
    [] r.op = "deleteCustomer" -> byIdText("DELETE FROM", "ds_customer")
    [] r.op = "deleteContract" -> byIdText("DELETE FROM", "ds_contract")
    [] r.op = "searchCustomersByName" ->
         <<"SELECT * FROM", "ds_customer", "WHERE LOWER(first_name) LIKE LOWER(", Placeholder(1),
           ") OR LOWER(last_name) LIKE LOWER(", Placeholder(1), ") ORDER BY created_at DESC">>
    [] r.op = "createVehicle" -> <<"INSERT INTO", "ds_vehicle", "VALUES">>
                                   \o [n \in 1..10 |-> Placeholder(n)]
    [] r.op = "createCustomer" -> <<"INSERT INTO", "ds_customer", "VALUES">>
                                    \o [n \in 1..7 |-> Placeholder(n)]
    [] OTHER -> <<>>

\* everything a statement text is made of
SqlWords ==
  {"UPDATE", "SET", "=", "WHERE id =", "RETURNING *", "SELECT * FROM", "DELETE FROM",
   "INSERT INTO", "VALUES", "WHERE LOWER(first_name) LIKE LOWER(",
   ") OR LOWER(last_name) LIKE LOWER(", ") ORDER BY created_at DESC", "?"}
    \cup {Dollar(n) : n \in 1..10} \cup TableNames

Columns == UNION {CreateColumns[t] : t \in TableNames}

(***************************************************************************)
(* The contracts router.  Express tries the routes of a router in the      *)
(* order of their declaration and runs the first whose method and path     *)
(* match; none of the handlers calls next().  A path is the list of its    *)
(* segments below /api/contracts.                                          *)
(***************************************************************************)
ContractRoutes ==
  << [method |-> "POST", path |-> "/new"],
     [method |-> "GET", path |-> "/"],
     [method |-> "GET", path |-> "/:id"],
     [method |-> "PUT", path |-> "/:id"],
     [method |-> "DELETE", path |-> "/:id"],
     [method |-> "GET", path |-> "/search"] >>

\* path-to-regexp: /:id takes any one segment, a literal only itself
pathMatches(pattern, path) ==
  CASE pattern = "/" -> path = <<>>
    [] pattern = "/:id" -> Len(path) = 1
    [] pattern = "/new" -> path = <<"new">>
    [] pattern = "/search" -> path = <<"search">>
    [] OTHER -> FALSE

\* the first declared route that matches
firstRoute(method, path) ==
  LET hits == {i \in DOMAIN ContractRoutes :
                 ContractRoutes[i].method = method /\ pathMatches(ContractRoutes[i].path, path)}
  IN IF hits = {} THEN "404"
     ELSE ContractRoutes[CHOOSE i \in hits : \A j \in hits : i <= j].path

\* the characters of the strings the contracts of the model hold, lower-cased
toLowerCase(s) ==
  CASE s = "CN_1" -> <<"c", "n", "_", "1">>
    [] s = "CN_2" -> <<"c", "n", "_", "2">>
    [] s = "VIN_A" -> <<"v", "i", "n", "_", "a">>
    [] s = "VIN_B" -> <<"v", "i", "n", "_", "b">>
    [] s = "Sa Jo" -> <<"s", "a", " ", "j", "o">>
    [] OTHER -> <<>>

\* String.prototype.includes
includes(str, q) == \E i \in 0..(Len(str) - Len(q)) : SubSeq(str, i + 1, i + Len(q)) = q

\* the filter of GET /search for the parameter q (lower-cased by the handler)
searchFilter(rows, q) ==
  SelectSeq(rows, LAMBDA c : \/ includes(toLowerCase(c.customer_name), q)
                             \/ includes(toLowerCase(c.contract_number), q)
                             \/ includes(toLowerCase(c.vin_number), q))

\* req.params.id as the parameter of WHERE c.id = $1
paramId(segment) == CASE segment = "1" -> 1 [] segment = "2" -> 2 [] OTHER -> 0

IsInteger(segment) == segment \in {"1", "2"}

\* GET /api/contracts/<path>?q=<q>
getContractsPath(path, q) ==
  LET route == firstRoute("GET", path)
      request == [path |-> path, q |-> q]
  IN
  /\ CASE route = "/search" ->
            \E rows \in getAllContractsRows(0, 100) :
              result' = Outcome("searchContracts", 0, request, "rows", "", searchFilter(rows, q), 1)
       [] route = "/:id" /\ IsInteger(path[1]) ->
            LET found == RowsById(ds_contract, paramId(path[1])) IN
            result' = IF found = {}
                      THEN Outcome("getContractById", paramId(path[1]), request, "null", "", <<>>, 1)
                      ELSE Outcome("getContractById", paramId(path[1]), request, "row", "",
                                   <<mapToContractDetailResponse(JoinedRow(TheRow(found)))>>, 1)
       \* PostgreSQL refuses the text as an integer; SQLite compares and finds no row
       [] route = "/:id" /\ ~IsInteger(path[1]) ->
            result' = IF usePostgres
                      THEN Outcome("getContractById", 0, request, "reject",
                                   "invalid input syntax for type integer", <<>>, 1)
                      ELSE Outcome("getContractById", 0, request, "null", "", <<>>, 1)
       [] OTHER ->
            \E rows \in getAllContractsRows(0, 100) :
              result' = Outcome("getAllContracts", 0, request, "rows", "", rows, 1)
  /\ UNCHANGED <<usePostgres, now, ds_vehicle, ds_customer, ds_contract, ds_contract_image, lastID, aux>>

(***************************************************************************)
(* getAllVehicles, getAllCustomers: the whole table, newest first.         *)
(***************************************************************************)
getAllVehicles ==
  /\ \E rows \in OrderByCreatedAtDesc(ds_vehicle) :
       result' = Outcome("getAllVehicles", 0, NoData, "rows", "", rows, 1)
  /\ UNCHANGED <<usePostgres, now, ds_vehicle, ds_customer, ds_contract, ds_contract_image, lastID, aux>>

getAllCustomers ==
  /\ \E rows \in OrderByCreatedAtDesc(ds_customer) :
       result' = Outcome("getAllCustomers", 0, NoData, "rows", "", rows, 1)
  /\ UNCHANGED <<usePostgres, now, ds_vehicle, ds_customer, ds_contract, ds_contract_image, lastID, aux>>

(***************************************************************************)
(* SQLite, statement by statement.  A create or update is a db.run whose   *)
(* callback issues a db.get for the row; other requests' statements can    *)
(* run between the two.  inflight holds the call that has written and not  *)
(* yet read.                                                               *)
(***************************************************************************)
\* db.run('UPDATE ds_customer SET ... WHERE id = ?'): this.changes > 0 goes on
\* to the SELECT, otherwise resolve(null)
updateCustomerRun(id, customerData) ==
  LET old == RowsById(ds_customer, id) IN
  /\ ~usePostgres
  /\ inflight = NoRead
  /\ IF old = {}
     THEN /\ result' = Outcome("updateCustomer", id, customerData, "null", "", <<>>, 1)
          /\ UNCHANGED <<ds_customer, inflight>>
     ELSE LET row == updateCustomerRow(TheRow(old), customerData) IN
          /\ ds_customer' = (ds_customer \ old) \cup {row}
          /\ inflight' = [op |-> "updateCustomer", id |-> id, data |-> customerData]
          /\ result' = Outcome("db.run", id, customerData, "changes", "", <<row>>, 1)
  /\ UNCHANGED <<usePostgres, now, ds_vehicle, ds_contract, ds_contract_image, lastID,
                 pager, seed, server, schema, pool, spaces>>

\* db.run('INSERT INTO ds_contract ...'): the callback reads this.lastID
createContractRun(contractData) ==
  LET row == createContractRow(contractData) IN
  /\ ~usePostgres
  /\ inflight = NoRead
  /\ lastID.contract < MaxContracts
  /\ IF ContractNumberUniqueViolation(ds_contract, 0, row.contract_number)
     THEN /\ result' = Outcome("createContract", 0, contractData, "reject", "unique", <<>>, 1)
          /\ UNCHANGED <<ds_contract, lastID, inflight>>
     ELSE /\ ds_contract' = ds_contract \cup {row}
          /\ lastID' = [lastID EXCEPT !.contract = row.id]
          /\ inflight' = [op |-> "createContract", id |-> row.id, data |-> contractData]
          /\ result' = Outcome("db.run", row.id, contractData, "changes", "", <<row>>, 1)
  /\ UNCHANGED <<usePostgres, now, ds_vehicle, ds_customer, ds_contract_image,
                 pager, seed, server, schema, pool, spaces>>

\* db.get('SELECT * FROM ... WHERE id = ?'): the row as it is now, if any
selected(table, id) == RowsById(table, id)

\* the callback of that db.get: resolve(row), whatever row is
selectWritten ==
  LET found == selected(IF inflight.op = "updateCustomer" THEN ds_customer ELSE ds_contract,
                        inflight.id)
  IN
  /\ inflight # NoRead
  /\ result' = Outcome(inflight.op, inflight.id, inflight.data,
                       IF found = {} THEN "undefined" ELSE "row", "",
                       IF found = {} THEN <<>> ELSE <<TheRow(found)>>, 2)
  /\ inflight' = NoRead
  /\ UNCHANGED <<usePostgres, now, ds_vehicle, ds_customer, ds_contract, ds_contract_image, lastID,
                 pager, seed, server, schema, pool, spaces>>

(***************************************************************************)
(* The clock.                                                              *)
(***************************************************************************)
Tick ==
  /\ now < 1 + MaxClock
  /\ now' = now + 1
  /\ UNCHANGED <<usePostgres, ds_vehicle, ds_customer, ds_contract, ds_contract_image, lastID, result, aux>>

Init ==
  /\ usePostgres \in BOOLEAN
  /\ now = 1
  /\ ds_vehicle = {}
  /\ ds_customer = {}
  /\ ds_contract = {}
  /\ ds_contract_image = {}
  /\ lastID = [vehicle |-> 0, customer |-> 0, contract |-> 0, image |-> 0]
  /\ result = Outcome("none", 0, NoData, "none", "", <<>>, 0)
  /\ pager = NoPager
  /\ seed = NoSeed
  /\ server = NotStarted
  /\ schema = FullSchema
  /\ pool = NoClients
  /\ spaces = {}
  /\ inflight = NoRead

(***************************************************************************)
(* Requests.                                                               *)
(***************************************************************************)
FirstNames == {<<"S", "a">>}
LastNames == {<<"J", "o">>}
Phones == {"555-0102"}
CustomerNames == {"Sa Jo"}

VehicleRequests == VehicleCreates(VINs, {0}, {UNDEFINED})
VehicleVinUpdates == VehicleUpdates(VINs, {}, {})
CustomerRequests == CustomerCreates(FirstNames, LastNames, Phones, {UNDEFINED})

(***************************************************************************)
(* Spec: the store under create, update and delete of vehicles, customers, *)
(* contracts and contract images, on either backend.                       *)
(***************************************************************************)
ContractRequests ==
  ContractCreates({"CN_1"}, VehicleIds, CustomerIds, {"VIN_A"}, CustomerNames, Phones, {0}, {UNDEFINED})

ContractReferenceUpdates ==
  ContractUpdates({}, VehicleIds, CustomerIds, {}, {}, {}, {}, {})

Next ==
  \/ \E d \in VehicleCreates({"VIN_A"}, {0}, {UNDEFINED}) : createVehicle(d)
  \/ \E id \in VehicleIds : deleteVehicle(id)
  \/ \E d \in CustomerRequests : createCustomer(d)
  \/ \E id \in CustomerIds : deleteCustomer(id)
  \/ \E d \in ContractRequests : createContract(d)
  \/ \E id \in ContractIds, d \in ContractReferenceUpdates : updateContract(id, d)
  \/ \E id \in ContractIds : deleteContract(id)
  \/ \E id \in ContractIds : insertContractImage(id)

Spec == Init /\ [][Next]_vars

(***************************************************************************)
(* SpecVehicles: vehicle create, update and delete while time passes.      *)
(***************************************************************************)
NextVehicles ==
  \/ Tick
  \/ \E d \in VehicleRequests : createVehicle(d)
  \/ \E id \in VehicleIds, d \in VehicleVinUpdates : updateVehicle(id, d)
  \/ \E id \in VehicleIds : deleteVehicle(id)
  \/ \E id \in VehicleIds : getVehicleById(id)

SpecVehicles == Init /\ [][NextVehicles]_vars

(***************************************************************************)
(* SpecContractNumbers: contracts of one vehicle and one customer, created,*)
(* renumbered and deleted.                                                 *)
(***************************************************************************)
NumberedContractRequests ==
  ContractCreates(ContractNumbers, {1}, {1}, {"VIN_A"}, CustomerNames, Phones, {0}, {UNDEFINED})

ContractNumberUpdates ==
  ContractUpdates(ContractNumbers, {}, {}, {}, {}, {}, {}, {})

NextContractNumbers ==
  \/ \E d \in VehicleCreates({"VIN_A"}, {0}, {UNDEFINED}) : createVehicle(d)
  \/ \E d \in CustomerRequests : createCustomer(d)
  \/ \E d \in NumberedContractRequests : createContract(d)
  \/ \E id \in ContractIds, d \in ContractNumberUpdates : updateContract(id, d)
  \/ \E id \in ContractIds : deleteContract(id)

SpecContractNumbers == Init /\ [][NextContractNumbers]_vars

(***************************************************************************)
(* SpecContractDetail: one vehicle, customers and contracts created with   *)
(* every field of the create requests varied, and read back by id.         *)
(***************************************************************************)
DetailVehicleRequests == VehicleCreates({"VIN_A"}, {7}, {UNDEFINED, "rented"})
DetailCustomerRequests == CustomerCreates(FirstNames, LastNames, Phones, {UNDEFINED, "1 Main St"})
DetailContractRequests ==
  ContractCreates({"CN_1"}, VehicleIds, CustomerIds, VINs, CustomerNames, Phones, {0, 5},
                  {UNDEFINED, "completed"})

NextContractDetail ==
  \/ \E d \in DetailVehicleRequests : createVehicle(d)
  \/ \E d \in DetailCustomerRequests : createCustomer(d)
  \/ \E d \in DetailContractRequests : createContract(d)
  \/ \E id \in ContractIds : deleteContract(id)
  \/ \E id \in VehicleIds : getVehicleById(id)
  \/ \E id \in CustomerIds : getCustomerById(id)
  \/ \E id \in ContractIds : getContractById(id)

SpecContractDetail == Init /\ [][NextContractDetail]_vars

(***************************************************************************)
(* SpecEntityUpdates: vehicles and customers created and then updated with *)
(* empty and non-empty partials while the clock advances.                  *)
(***************************************************************************)
EmptyVehicleUpdate == [vin_number |-> UNDEFINED, mileage |-> UNDEF_NUM, status |-> UNDEFINED]
EmptyCustomerUpdate ==
  [first_name |-> UNDEFINED, last_name |-> UNDEFINED, phone_number |-> UNDEFINED,
   address |-> UNDEFINED]

VehicleMileageUpdates == VehicleUpdates({}, {7}, {})
CustomerEmptyUpdates == CustomerUpdates({}, {}, {}, {})

NextEntityUpdates ==
  \/ Tick
  \/ \E d \in VehicleCreates({"VIN_A"}, {0}, {UNDEFINED}) : createVehicle(d)
  \/ \E d \in CustomerRequests : createCustomer(d)
  \/ \E id \in VehicleIds, d \in VehicleMileageUpdates : updateVehicle(id, d)
  \/ \E id \in CustomerIds, d \in CustomerEmptyUpdates : updateCustomer(id, d)

SpecEntityUpdates == Init /\ [][NextEntityUpdates]_vars

(***************************************************************************)
(* SpecContractUpdates: one contract created and then updated with empty   *)
(* and non-empty update objects while the clock advances.                  *)
(***************************************************************************)
EmptyContractUpdate ==
  [contract_number |-> UNDEFINED, vehicle_id |-> UNDEF_NUM, customer_id |-> UNDEF_NUM,
   vin_number |-> UNDEFINED, customer_name |-> UNDEFINED, customer_phone |-> UNDEFINED,
   tax_amount |-> UNDEF_NUM, status |-> UNDEFINED]

ContractStatusUpdates == ContractUpdates({}, {}, {}, {}, {}, {}, {}, {"completed"})

SingleContractRequests ==
  ContractCreates({"CN_1"}, {1}, {1}, {"VIN_A"}, CustomerNames, Phones, {0}, {UNDEFINED})

NextContractUpdates ==
  \/ Tick
  \/ \E d \in VehicleCreates({"VIN_A"}, {0}, {UNDEFINED}) : createVehicle(d)
  \/ \E d \in CustomerRequests : createCustomer(d)
  \/ \E d \in SingleContractRequests : createContract(d)
  \/ \E id \in ContractIds, d \in ContractStatusUpdates : updateContract(id, d)

SpecContractUpdates == Init /\ [][NextContractUpdates]_vars

(***************************************************************************)
(* SpecSearch: customers with seeded names, searched by name.              *)
(***************************************************************************)
SearchFirstNames == {<<"S", "a", "r", "a", "h">>, <<"A", "l">>}
SearchLastNames == {<<"J", "o", "h", "n", "s", "o", "n">>}
SearchCustomerRequests == CustomerCreates(SearchFirstNames, SearchLastNames, Phones, {UNDEFINED})

SearchChars == {"a", "A", "s", "j", " ", "%", "_"}

\* every text of at most MaxTextLen characters, and the documented examples
SearchTexts ==
  UNION {[1..n -> SearchChars] : n \in 0..MaxTextLen}
    \cup {<<"s", "a", "r", "a", "h">>, <<"J", "O", "H", "N">>,
          <<"a", "r", "a", "h", " ", "j", "o", "h", "n">>}

NextSearch ==
  \/ \E d \in SearchCustomerRequests : createCustomer(d)
  \/ \E id \in CustomerIds : deleteCustomer(id)
  \/ \E name \in SearchTexts : searchCustomersByName(name)

SpecSearch == Init /\ [][NextSearch]_vars

(***************************************************************************)
(* SpecPaging: contracts are created while the clock may or may not        *)
(* advance between them; then, with no further write, a client reads the   *)
(* list page by page.                                                      *)
(***************************************************************************)
Limits == 1..MaxLimit

NextPaging ==
  \/ pager.limit = 0 /\ Tick
  \/ \E d \in VehicleCreates({"VIN_A"}, {0}, {UNDEFINED}) : pager.limit = 0 /\ createVehicle(d)
  \/ \E d \in CustomerRequests : pager.limit = 0 /\ createCustomer(d)
  \/ \E d \in NumberedContractRequests : pager.limit = 0 /\ createContract(d)
  \/ \E limit \in Limits : pagerStart(limit)
  \/ pagerNext

SpecPaging == Init /\ [][NextPaging]_vars

(***************************************************************************)
(* SpecDeletes: rows of the three entities created, deleted and read back  *)
(* by id.                                                                  *)
(***************************************************************************)
NextDeletes ==
  \/ \E d \in VehicleRequests : createVehicle(d)
  \/ \E d \in CustomerRequests : createCustomer(d)
  \/ \E d \in SingleContractRequests : createContract(d)
  \/ \E id \in VehicleIds : deleteVehicle(id)
  \/ \E id \in CustomerIds : deleteCustomer(id)
  \/ \E id \in ContractIds : deleteContract(id)
  \/ \E id \in VehicleIds : getVehicleById(id)
  \/ \E id \in CustomerIds : getCustomerById(id)
  \/ \E id \in ContractIds : getContractById(id)

SpecDeletes == Init /\ [][NextDeletes]_vars

(***************************************************************************)
(* SpecSnapshot: a contract created for a vehicle and a customer, which    *)
(* are then updated, and the contract read back by id and by list.         *)
(***************************************************************************)
CustomerContactUpdates == CustomerUpdates({}, {}, {"555-0199"}, {"1 Main St"})

NextSnapshot ==
  \/ \E d \in VehicleCreates({"VIN_A"}, {0}, {UNDEFINED}) : createVehicle(d)
  \/ \E d \in CustomerRequests : createCustomer(d)
  \/ \E d \in SingleContractRequests : createContract(d)
  \/ \E id \in VehicleIds, d \in VehicleVinUpdates : updateVehicle(id, d)
  \/ \E id \in CustomerIds, d \in CustomerContactUpdates : updateCustomer(id, d)
  \/ \E id \in ContractIds : getContractById(id)
  \/ getAllContracts(0, 100)

SpecSnapshot == Init /\ [][NextSnapshot]_vars

(***************************************************************************)
(* SpecContractStatus: contracts whose status is updated and that are      *)
(* deleted and created again.                                              *)
(***************************************************************************)
StatusUpdate(t) == [EmptyContractUpdate EXCEPT !.status = t]

NextContractStatus ==
  \/ \E d \in VehicleCreates({"VIN_A"}, {0}, {UNDEFINED}) : createVehicle(d)
  \/ \E d \in CustomerRequests : createCustomer(d)
  \/ \E d \in SingleContractRequests : createContract(d)
  \/ \E id \in ContractIds, t \in ContractStatuses : updateContract(id, StatusUpdate(t))
  \/ \E id \in ContractIds : deleteContract(id)

SpecContractStatus == Init /\ [][NextContractStatus]_vars

(***************************************************************************)
(* SpecValidation: create and update requests for vehicles and contracts   *)
(* with valid bodies and with bodies failing validation in one field.      *)
(***************************************************************************)
RouteVin == "1HGCM82633A004352"

EmptyVehicleBody == [vin_number |-> Missing, mileage |-> Missing, status |-> Missing]
ValidVehicleBody == [EmptyVehicleBody EXCEPT !.vin_number = Str(RouteVin)]

VehicleBodies ==
  {ValidVehicleBody}
    \cup {[ValidVehicleBody EXCEPT !.vin_number = b] : b \in {Missing, Str("1HG"), Num(17)}}
    \cup {[ValidVehicleBody EXCEPT !.mileage = b] : b \in {Num(7), Str("7"), Num(0 - 1)}}

VehicleUpdateBodies ==
  {EmptyVehicleBody}
    \cup {[EmptyVehicleBody EXCEPT !.vin_number = b] : b \in {Str("1HG"), Num(17)}}
    \cup {[EmptyVehicleBody EXCEPT !.mileage = b] : b \in {Num(7), Str("7")}}

EmptyContractBody ==
  [contract_number |-> Missing, vehicle_id |-> Missing, customer_id |-> Missing,
   vin_number |-> Missing, customer_name |-> Missing, customer_phone |-> Missing,
   start_date |-> Missing, status |-> Missing]

ValidContractBody ==
  [contract_number |-> Str("CN_1"), vehicle_id |-> Num(1), customer_id |-> Num(1),
   vin_number |-> Str(RouteVin), customer_name |-> Str("Sa Jo"),
   customer_phone |-> Str("555-0102"), start_date |-> Str("2024-01-01"), status |-> Missing]

ContractBodies ==
  {ValidContractBody}
    \cup {[ValidContractBody EXCEPT !.contract_number = b] : b \in {Missing, Str("")}}
    \cup {[ValidContractBody EXCEPT !.vehicle_id = b] : b \in {Missing, Str("1"), Num(0)}}
    \cup {[ValidContractBody EXCEPT !.vin_number = b] : b \in {Missing, Str("1HG")}}
    \cup {[ValidContractBody EXCEPT !.start_date = b] :
            b \in {Missing, Num(20240101), Str("not-a-date")}}

\* a body with a valid start_date is left out: the contract rows of the model
\* have no start_date column for the update to set
ContractUpdateBodies ==
  {EmptyContractBody}
    \cup {[EmptyContractBody EXCEPT !.status = b] : b \in {Str("completed"), Num(1)}}
    \cup {[EmptyContractBody EXCEPT !.vin_number = b] : b \in {Str("1HG")}}
    \cup {[EmptyContractBody EXCEPT !.start_date = b] : b \in {Num(20240101), Str("not-a-date")}}

NextValidation ==
  \/ \E d \in CustomerRequests : createCustomer(d)
  \/ \E body \in VehicleBodies : postVehicleNew(body)
  \/ \E id \in VehicleIds, body \in VehicleUpdateBodies : putVehicle(id, body)
  \/ \E body \in ContractBodies : postContractNew(body)
  \/ \E id \in ContractIds, body \in ContractUpdateBodies : putContract(id, body)

SpecValidation == Init /\ [][NextValidation]_vars

(***************************************************************************)
(* SpecErrors: requests that fail inside the handler: rejected inserts,    *)
(* a throwing parse, a missing configuration, a failing object store.      *)
(***************************************************************************)
ErrorContractBodies ==
  {ValidContractBody, [ValidContractBody EXCEPT !.start_date = Str("not-a-date")]}

NextErrors ==
  \/ \E d \in CustomerRequests : createCustomer(d)
  \/ postVehicleNew(ValidVehicleBody)
  \/ \E body \in ErrorContractBodies : postContractNew(body)
  \/ \E id \in ContractIds, configured \in BOOLEAN, s3 \in S3Outcomes :
       postUpload(id, configured, s3)

SpecErrors == Init /\ [][NextErrors]_vars

(***************************************************************************)
(* SpecRoutes: the create, read, update and delete routes of the three     *)
(* routers, with valid bodies, on present and absent ids.                  *)
(***************************************************************************)
RouteVehicleUpdateBodies == {EmptyVehicleBody, [EmptyVehicleBody EXCEPT !.mileage = Num(7)]}
RouteContractUpdateBodies ==
  {EmptyContractBody, [EmptyContractBody EXCEPT !.status = Str("completed")]}

NextRoutes ==
  \/ postVehicleNew(ValidVehicleBody)
  \/ \E id \in VehicleIds, body \in RouteVehicleUpdateBodies : putVehicle(id, body)
  \/ \E id \in VehicleIds : getVehicleById(id)
  \/ \E id \in VehicleIds : deleteVehicle(id)
  \/ \E d \in CustomerRequests : createCustomer(d)
  \/ \E id \in CustomerIds : getCustomerById(id)
  \/ \E id \in CustomerIds : deleteCustomer(id)
  \/ postContractNew(ValidContractBody)
  \/ \E id \in ContractIds, body \in RouteContractUpdateBodies : putContract(id, body)
  \/ \E id \in ContractIds : getContractById(id)
  \/ \E id \in ContractIds : deleteContract(id)

SpecRoutes == Init /\ [][NextRoutes]_vars

(***************************************************************************)
(* SpecSeeding: seedSampleData at startup and from POST /seed-data, on     *)
(* stores that creates and deletes have filled and emptied.  On SQLite a   *)
(* call arrives here once the inserts of the call before it have run.      *)
(***************************************************************************)
NextSeeding ==
  \/ (usePostgres \/ seed.pending = {}) /\ seedSampleData
  \/ seedRun
  \/ \E d \in CustomerRequests : seed.calls = 0 /\ createCustomer(d)
  \/ \E r \in ds_vehicle : seed.pending = {} /\ deleteVehicle(r.id)
  \/ \E r \in ds_customer : seed.pending = {} /\ deleteCustomer(r.id)

SpecSeeding == Init /\ [][NextSeeding]_vars

(***************************************************************************)
(* SpecSeedRace: seedSampleData called again while the inserts of an       *)
(* earlier call are still to run (two POST /seed-data requests, or one     *)
(* right after the start), on a store that begins empty.                   *)
(***************************************************************************)
NextSeedRace ==
  \/ seedSampleData
  \/ seedRun

SpecSeedRace == Init /\ [][NextSeedRace]_vars

(***************************************************************************)
(* SpecSeedRead: one seedSampleData on an empty store, and the lists read  *)
(* once its promise has resolved.                                          *)
(***************************************************************************)
NextSeedRead ==
  \/ seed.calls = 0 /\ seedSampleData
  \/ seedRun
  \/ seed.calls > 0 /\ getAllVehicles
  \/ seed.calls > 0 /\ getAllCustomers
  \/ seed.calls > 0 /\ Tick

SpecSeedRead == Init /\ [][NextSeedRead]_vars

(***************************************************************************)
(* SpecWriteRead: on SQLite an update of a customer and a create of a      *)
(* contract, statement by statement, with deletes of the same ids running  *)
(* at any point; on PostgreSQL the same calls, one statement each.         *)
(***************************************************************************)
NextWriteRead ==
  \/ \E d \in CustomerRequests : inflight = NoRead /\ createCustomer(d)
  \/ \E d \in CustomerContactUpdates : updateCustomerRun(1, d)
  \/ \E d \in SingleContractRequests : createContractRun(d)
  \/ selectWritten
  \/ \E d \in CustomerContactUpdates : usePostgres /\ updateCustomer(1, d)
  \/ \E d \in SingleContractRequests : usePostgres /\ createContract(d)
  \/ \E id \in {1} : deleteCustomer(id)
  \/ \E id \in {1} : deleteContract(id)

SpecWriteRead == Init /\ [][NextWriteRead]_vars

(***************************************************************************)
(* SpecStartup: the process from the evaluation of its imports to the      *)
(* requests it serves once it listens.                                     *)
(***************************************************************************)
NextStartup ==
  \/ importRoutes
  \/ \E fails \in {{}, {0}} : initializeDatabase(fails)
  \/ setupRoutes
  \/ server.phase = "routes" /\ seed.calls = 0 /\ seedSampleData
  \/ listen
  \/ Listening /\ seedSampleData
  \/ \E r \in ds_vehicle : Listening /\ deleteVehicle(r.id)
  \/ \E r \in ds_customer : Listening /\ deleteCustomer(r.id)
  \/ Listening /\ getContracts(0, 100)

SpecStartup == Init /\ [][NextStartup]_vars

(***************************************************************************)
(* SpecBootstrap: startServer on a store never started on, on a store of   *)
(* the first release and on a store of today, with any of the ADD COLUMN   *)
(* statements failing, or the connection, or one CREATE TABLE; restarts in *)
(* between.  The specification begins where startServer is entered.        *)
(***************************************************************************)
Failures == SUBSET AddColumnSteps \cup {{i} : i \in FatalSteps}

InitBootstrap ==
  /\ usePostgres \in BOOLEAN
  /\ now = 1
  /\ ds_vehicle = {}
  /\ ds_customer = {}
  /\ ds_contract = {}
  /\ ds_contract_image = {}
  /\ lastID = [vehicle |-> 0, customer |-> 0, contract |-> 0, image |-> 0]
  /\ result = Outcome("none", 0, NoData, "none", "", <<>>, 0)
  /\ pager = NoPager
  /\ seed = NoSeed
  /\ server = [NotStarted EXCEPT !.phase = "startServer"]
  /\ schema \in {NoSchema, FirstSchema, FullSchema}
  /\ pool = NoClients
  /\ spaces = {}
  /\ inflight = NoRead

NextBootstrap ==
  \/ \E fails \in Failures : initializeDatabase(fails)
  \/ setupRoutes
  \/ server.phase = "routes" /\ seed.calls = 0 /\ seedSampleData
  \/ listen
  \/ Listening /\ seedRun
  \/ restart

SpecBootstrap == InitBootstrap /\ [][NextBootstrap]_vars

(***************************************************************************)
(* SpecPool: every handler that takes a client from pgPool, on its success *)
(* path and with its statements failing: the schema bootstrap, seeding,    *)
(* /migrate-db, the upload and the file listing.                           *)
(***************************************************************************)
BootstrapFailures == {{}, {0}, {1}, {5}}
MigrateFailures == {{}, {0}, {2}, {5}}
PoolContractRequests ==
  ContractCreates({"CN_1"}, {1}, {1}, {"VIN_A"}, CustomerNames, Phones, {0}, {UNDEFINED})

NextPool ==
  \/ \E fails \in BootstrapFailures : initializeDatabase(fails)
  \/ setupRoutes
  \/ server.phase = "routes" /\ seed.calls = 0 /\ seedSampleData
  \/ listen
  \/ Listening /\ seedRun
  \/ \E fails \in MigrateFailures : migrateDb(fails)
  \/ \E d \in PoolContractRequests : Listening /\ createContract(d)
  \/ \E id \in ContractIds, configured \in BOOLEAN, s3 \in S3Outcomes :
       Listening /\ postUpload(id, configured, s3)
  \/ \E queryThrows \in BOOLEAN : listFiles(1, queryThrows)

SpecPool == InitBootstrap /\ [][NextPool]_vars

(***************************************************************************)
(* SpecBackends: a process from the entry of startServer to serving, with  *)
(* either setting of USE_SQLITE, and requests to the contracts router.     *)
(***************************************************************************)
NextBackends ==
  \/ \E fails \in {{}, {0}} : initializeDatabase(fails)
  \/ setupRoutes
  \/ server.phase = "routes" /\ seed.calls = 0 /\ seedSampleData
  \/ listen
  \/ Listening /\ seedRun
  \/ \E skip \in {0, 1} : Listening /\ getContracts(skip, 100)
  \/ restart

SpecBackends == InitBootstrap /\ [][NextBackends]_vars

(***************************************************************************)
(* SpecStatements: the service calls with the same fields and different    *)
(* values, one after the other.                                            *)
(***************************************************************************)
StatementVehicleUpdates == VehicleUpdates(VINs, {}, {"rented"})
StatementVehicleRequests == VehicleCreates({"VIN_A"}, {0}, {UNDEFINED})
StatementContractUpdates == ContractUpdates(ContractNumbers, {}, {}, {}, {}, {}, {}, {"completed"})
StatementSearchTexts == {<<"a">>, <<"%">>}

NextStatements ==
  \/ \E d \in StatementVehicleRequests : createVehicle(d)
  \/ \E d \in CustomerRequests : createCustomer(d)
  \/ \E d \in SingleContractRequests : createContract(d)
  \/ \E id \in {1}, d \in StatementVehicleUpdates : updateVehicle(id, d)
  \/ \E id \in {1}, d \in CustomerContactUpdates :
       ds_vehicle = {} /\ ds_contract = {} /\ updateCustomer(id, d)
  \/ \E id \in {1}, d \in StatementContractUpdates : updateContract(id, d)
  \/ \E name \in StatementSearchTexts : searchCustomersByName(name)
  \/ \E id \in {1} : getVehicleById(id)
  \/ \E id \in {1} : deleteContract(id)

SpecStatements == Init /\ [][NextStatements]_vars

(***************************************************************************)
(* SpecUploads: POST /api/contract-files/upload with and without a file,   *)
(* with valid and invalid fields, for an existing and an unknown contract, *)
(* with and without the Spaces settings, the object store answering or     *)
(* failing.                                                                *)
(***************************************************************************)
NextUploads ==
  \/ \E d \in StatementVehicleRequests : createVehicle(d)
  \/ \E d \in CustomerRequests : createCustomer(d)
  \/ \E d \in SingleContractRequests : createContract(d)
  \/ \E file \in Files, body \in UploadBodies, configured \in BOOLEAN, s3 \in S3Outcomes :
       postUploadRoute(file, body, configured, s3)

SpecUploads == Init /\ [][NextUploads]_vars

(***************************************************************************)
(* SpecPartialUpdates: rows of the three tables updated with one field,    *)
(* two fields, or none: vehicles and customers                             *)
(* while the other tables are still empty, contracts once their vehicle    *)
(* and customer exist.                                                     *)
(***************************************************************************)
PartialVehicleUpdates == VehicleUpdates({}, {7}, {"rented"})
PartialCustomerRequests == CustomerCreates(FirstNames, LastNames, Phones, {"1 Main St"})
PartialContractUpdates == ContractUpdates({"CN_2"}, {}, {}, {}, {}, {}, {}, {"completed"})

NextPartialUpdates ==
  \/ \E d \in VehicleRequests : ds_customer = {} /\ createVehicle(d)
  \/ \E d \in PartialCustomerRequests : ds_contract = {} /\ createCustomer(d)
  \/ \E d \in SingleContractRequests :
       ds_vehicle # {} /\ ds_customer # {} /\ createContract(d)
  \/ \E id \in VehicleIds, d \in PartialVehicleUpdates :
       ds_customer = {} /\ ds_contract = {} /\ updateVehicle(id, d)
  \/ \E id \in {1}, d \in CustomerContactUpdates :
       ds_vehicle = {} /\ ds_contract = {} /\ updateCustomer(id, d)
  \/ \E id \in {1}, d \in PartialContractUpdates : updateContract(id, d)

SpecPartialUpdates == Init /\ [][NextPartialUpdates]_vars

(***************************************************************************)
(* SpecContractRoutes: GET requests below /api/contracts, among them       *)
(* /search, on a store with up to two contracts.                           *)
(***************************************************************************)
ContractPaths == {<<>>, <<"1">>, <<"2">>, <<"search">>}
SearchQueries == {<<"c", "n">>, <<"_", "2">>, <<"j", "o">>, <<"x">>}

NextContractRoutes ==
  \/ Tick
  \/ \E d \in StatementVehicleRequests : createVehicle(d)
  \/ \E d \in CustomerRequests : createCustomer(d)
  \/ \E d \in NumberedContractRequests : createContract(d)
  \/ \E path \in ContractPaths, q \in SearchQueries : getContractsPath(path, q)

SpecContractRoutes == Init /\ [][NextContractRoutes]_vars

(***************************************************************************)
(* C1.  No two stored vehicles share a VIN; createVehicle stores the VIN   *)
(* it is given, and a createVehicle with the VIN of a stored vehicle is    *)
(* rejected for uniqueness and leaves ds_vehicle as it was.                *)
(***************************************************************************)
VinUnique == \A a, b \in ds_vehicle : a.vin_number = b.vin_number => a.id = b.id

CreateVehicleStoresOrRejects ==
  \A d \in VehicleRequests :
    createVehicle(d) =>
      IF \E r \in ds_vehicle : r.vin_number = d.vin_number
      THEN result'.ret = "reject" /\ result'.err = "unique" /\ ds_vehicle' = ds_vehicle
      ELSE \E r \in ds_vehicle' :
             /\ r.vin_number = d.vin_number
             /\ result'.rows = <<r>>
             /\ ds_vehicle' = ds_vehicle \cup {r}

C1_VinUnique == []VinUnique /\ [][CreateVehicleStoresOrRejects]_vars

C1_Witness ==
  /\ result.op = "createVehicle" /\ result.err = "unique"
  /\ \E r \in ds_vehicle : r.vin_number = result.data.vin_number /\ r.created_at < now

(***************************************************************************)
(* C2.  After deleteContract(K) returned true no contract image references *)
(* K.                                                                      *)
(***************************************************************************)
C2_DeleteCascades ==
  (result.op = "deleteContract" /\ result.ret = "true")
    => ~ \E i \in ds_contract_image : i.contract_id = result.id

(***************************************************************************)
(* C3.  Every stored contract's vehicle_id and customer_id are ids of      *)
(* stored rows.                                                            *)
(***************************************************************************)
C3_ReferencesExist ==
  \A c \in ds_contract :
    /\ RowsById(ds_vehicle, c.vehicle_id) # {}
    /\ RowsById(ds_customer, c.customer_id) # {}

(***************************************************************************)
(* C4.  No two stored contracts share a contract_number; a createContract  *)
(* or updateContract that would give two contracts the same number is      *)
(* rejected and leaves ds_contract as it was.                              *)
(***************************************************************************)
ContractNumberUnique ==
  \A a, b \in ds_contract : a.contract_number = b.contract_number => a.id = b.id

DuplicateNumberRejected ==
  /\ \A d \in NumberedContractRequests :
       (createContract(d) /\ \E r \in ds_contract : r.contract_number = d.contract_number)
         => result'.ret = "reject" /\ ds_contract' = ds_contract
  /\ \A id \in ContractIds, d \in ContractNumberUpdates :
       (/\ updateContract(id, d)
        /\ RowsById(ds_contract, id) # {}
        /\ \E r \in ds_contract : r.id # id /\ r.contract_number = d.contract_number)
         => result'.ret = "reject" /\ ds_contract' = ds_contract

C4_ContractNumberUnique == []ContractNumberUnique /\ [][DuplicateNumberRejected]_vars

C4_Witness ==
  /\ result.op = "updateContract" /\ result.err = "unique"
  /\ Cardinality(ds_contract) = 2
(***************************************************************************)
(* C5.  getContractById on a contract just created with vehicle id V and   *)
(* customer id C returns a response whose nested vehicle.id is V and whose *)
(* nested customer.id is C.                                                *)
(***************************************************************************)
Created(op) == result.op = op /\ result.ret = "row"

NestedIdsOfCreatedContract ==
  \A id \in ContractIds :
    (Created("createContract") /\ id = result.rows[1].id /\ getContractById(id))
      => /\ result'.ret = "row"
         /\ result'.rows[1].vehicle.id = result.data.vehicle_id
         /\ result'.rows[1].customer.id = result.data.customer_id

C5_NestedIds == [][NestedIdsOfCreatedContract]_vars

C5_Witness ==
  /\ result.op = "getContractById" /\ result.ret = "row"
  /\ result.rows[1].vehicle.id = 2
  /\ result.rows[1].customer.id = 1
  /\ result.id = 2

(***************************************************************************)
(* C10.  Every field given to create is returned with the same value by    *)
(* the getById that follows on the created id; for a contract that         *)
(* includes tax_amount, status, vin_number and the contract's own id.      *)
(***************************************************************************)
\* the fields of the request that were supplied
Supplied(data) ==
  {f \in DOMAIN data : IF f \in NumericFields THEN data[f] # UNDEF_NUM ELSE data[f] # UNDEFINED}

ReturnsSupplied(data, row) ==
  \A f \in Supplied(data) : f \in DOMAIN row /\ row[f] = data[f]

RoundTrip ==
  /\ \A id \in VehicleIds :
       (Created("createVehicle") /\ id = result.rows[1].id /\ getVehicleById(id))
         => result'.ret = "row" /\ result'.rows[1].id = id
            /\ ReturnsSupplied(result.data, result'.rows[1])
  /\ \A id \in CustomerIds :
       (Created("createCustomer") /\ id = result.rows[1].id /\ getCustomerById(id))
         => result'.ret = "row" /\ result'.rows[1].id = id
            /\ ReturnsSupplied(result.data, result'.rows[1])
  /\ \A id \in ContractIds :
       (Created("createContract") /\ id = result.rows[1].id /\ getContractById(id))
         => result'.ret = "row" /\ result'.rows[1].id = id
            /\ ReturnsSupplied(result.data, result'.rows[1])

C10_RoundTrip == [][RoundTrip]_vars
(***************************************************************************)
(* C6.  As claimed: updateVehicle / updateCustomer with an empty partial   *)
(* on an existing id returns not-found and never the entity.               *)
(***************************************************************************)
EmptyUpdateNotFound ==
  /\ \A id \in VehicleIds :
       (RowsById(ds_vehicle, id) # {} /\ updateVehicle(id, EmptyVehicleUpdate))
         => result'.ret = "null"
  /\ \A id \in CustomerIds :
       (RowsById(ds_customer, id) # {} /\ updateCustomer(id, EmptyCustomerUpdate))
         => result'.ret = "null"

EmptyUpdateOf(table, tableAfter, id) ==
  IF RowsById(table, id) = {}
  THEN result'.ret = "null" /\ tableAfter = table
  ELSE LET old == TheRow(RowsById(table, id)) IN
       /\ result'.ret = "row"
       /\ result'.rows = <<[old EXCEPT !.updated_at = now]>>
       /\ tableAfter = (table \ {old}) \cup {result'.rows[1]}

EmptyUpdateTouches ==
  /\ \A id \in VehicleIds :
       updateVehicle(id, EmptyVehicleUpdate) => EmptyUpdateOf(ds_vehicle, ds_vehicle', id)
  /\ \A id \in CustomerIds :
       updateCustomer(id, EmptyCustomerUpdate) => EmptyUpdateOf(ds_customer, ds_customer', id)

NoFieldUpdateIsNull ==
  \A id \in ContractIds :
    updateContract(id, EmptyContractUpdate)
      => /\ result'.ret = "null"
         /\ result'.stmts = 0
         /\ ds_contract' = ds_contract

C7_NoFieldUpdateIsNull == [][NoFieldUpdateIsNull]_vars

C7_Witness ==
  /\ result.op = "updateContract" /\ result.data = EmptyContractUpdate
  /\ result.ret = "null"
  /\ \E c \in ds_contract : c.id = result.id /\ c.updated_at < now
(***************************************************************************)
(* C8.  searchCustomersByName(text) returns exactly the customers whose    *)
(* full name ("first last") contains text as a case-insensitive substring, *)
(* a text spanning the first and last name included.                       *)
(***************************************************************************)
FullName(c) == c.first_name \o <<" ">> \o c.last_name

Contains(str, text) ==
  \E i \in 0..(Len(str) - Len(text)) : SubSeq(str, i + 1, i + Len(text)) = text

C8_SearchIsSubstring ==
  result.op = "searchCustomersByName"
    => {result.rows[i] : i \in DOMAIN result.rows}
         = {c \in ds_customer : Contains(Lower(FullName(c)), Lower(result.data.name))}
(***************************************************************************)
(* C9.  With no write while the pages are read, the pages                  *)
(* getAllContracts(0, L), getAllContracts(L, L), ... are pairwise          *)
(* disjoint, each has at most L rows, and their concatenation is the whole *)
(* table with creation times never increasing.                             *)
(***************************************************************************)
RECURSIVE Flatten(_)
Flatten(pages) == IF pages = <<>> THEN <<>> ELSE Head(pages) \o Flatten(Tail(pages))

C9_PagesPartition ==
  pager.done =>
    LET all == Flatten(pager.pages) IN
    /\ \A i \in DOMAIN pager.pages : Len(pager.pages[i]) <= pager.limit
    /\ \A i, j \in DOMAIN all : i # j => all[i] # all[j]
    /\ {all[i] : i \in DOMAIN all} = ds_contract
    /\ \A i, j \in DOMAIN all : i < j => all[i].created_at >= all[j].created_at
(***************************************************************************)
(* C11.  As claimed: for each entity, delete(id) returns true iff a row    *)
(* with that id existed; after true, getById(id) finds nothing, the table  *)
(* has exactly one row fewer and its other rows are unchanged; delete on   *)
(* an absent id returns false and changes nothing.                         *)
(***************************************************************************)
DeleteOf(table, tableAfter, id) ==
  IF RowsById(table, id) = {}
  THEN result'.ret = "false" /\ tableAfter = table
  ELSE /\ result'.ret = "true"
       /\ tableAfter = table \ RowsById(table, id)
       /\ Cardinality(tableAfter) = Cardinality(table) - 1
       /\ RowsById(tableAfter, id) = {}

Deleted(op) == result.op = op /\ result.ret = "true"

GetAfterDelete ==
  /\ (Deleted("deleteVehicle") /\ getVehicleById(result.id)) => result'.ret = "null"
  /\ (Deleted("deleteCustomer") /\ getCustomerById(result.id)) => result'.ret = "null"
  /\ (Deleted("deleteContract") /\ getContractById(result.id)) => result'.ret = "null"

DeleteIffExisted ==
  /\ \A id \in VehicleIds : deleteVehicle(id) => DeleteOf(ds_vehicle, ds_vehicle', id)
  /\ \A id \in CustomerIds : deleteCustomer(id) => DeleteOf(ds_customer, ds_customer', id)
  /\ \A id \in ContractIds : deleteContract(id) => DeleteOf(ds_contract, ds_contract', id)
  /\ GetAfterDelete

C11_DeleteIffExisted == [][DeleteIffExisted]_vars

(***************************************************************************)
(* C11, as the code has it.  delete(id) returns true iff it removed the    *)
(* row with that id, with the effects above, and false, changing nothing,  *)
(* on an absent id; but on PostgreSQL the delete of a vehicle or customer  *)
(* that a contract references is rejected with a foreign-key error and     *)
(* changes nothing.                                                        *)
(***************************************************************************)
ReferencedOnPostgres(field, id) ==
  usePostgres /\ \E c \in ds_contract : c[field] = id

DeleteRejected(table, tableAfter) ==
  result'.ret = "reject" /\ result'.err = "foreign_key" /\ tableAfter = table

DeleteUnlessReferenced ==
  /\ \A id \in VehicleIds :
       deleteVehicle(id) =>
         IF RowsById(ds_vehicle, id) # {} /\ ReferencedOnPostgres("vehicle_id", id)
         THEN DeleteRejected(ds_vehicle, ds_vehicle')
         ELSE DeleteOf(ds_vehicle, ds_vehicle', id)
  /\ \A id \in CustomerIds :
       deleteCustomer(id) =>
         IF RowsById(ds_customer, id) # {} /\ ReferencedOnPostgres("customer_id", id)
         THEN DeleteRejected(ds_customer, ds_customer')
         ELSE DeleteOf(ds_customer, ds_customer', id)
  /\ \A id \in ContractIds : deleteContract(id) => DeleteOf(ds_contract, ds_contract', id)
  /\ GetAfterDelete

C11_DeleteUnlessReferenced == [][DeleteUnlessReferenced]_vars

C11_Witness ==
  /\ result.op = "deleteVehicle" /\ result.ret = "true"
  /\ RowsById(ds_vehicle, result.id) = {}
  /\ ds_vehicle # {}
  /\ \E c \in ds_contract : c.vehicle_id \in {v.id : v \in ds_vehicle}
(***************************************************************************)
(* C12.  The vin_number, customer_name and customer_phone of a contract,   *)
(* as returned by getContractById and getAllContracts, are the values      *)
(* given at its creation whatever updateVehicle or updateCustomer did      *)
(* since to the vehicle and customer it references.  (No action of         *)
(* SpecSnapshot updates a contract, and its creation requests are          *)
(* SingleContractRequests.)                                                *)
(***************************************************************************)
SnapshotOf(row) ==
  \E d \in SingleContractRequests :
    /\ row.vin_number = d.vin_number
    /\ row.customer_name = d.customer_name
    /\ row.customer_phone = d.customer_phone

C12_Snapshot ==
  /\ (/\ result.op = "getContractById" /\ result.ret = "row"
      /\ RowsById(ds_vehicle, result.rows[1].vehicle_id) # {}
      /\ RowsById(ds_customer, result.rows[1].customer_id) # {})
       => SnapshotOf(result.rows[1])
  /\ result.op = "getAllContracts"
       => \A i \in DOMAIN result.rows : SnapshotOf(result.rows[i])
(***************************************************************************)
(* C13.  For every pair s, t of active, returned, completed, cancelled, a  *)
(* single updateContract moves a contract of status s to status t, in any  *)
(* state.                                                                  *)
(***************************************************************************)
AnyStatusToAny ==
  \A id \in ContractIds, t \in ContractStatuses :
    (RowsById(ds_contract, id) # {} /\ updateContract(id, StatusUpdate(t)))
      => /\ result'.ret = "row"
         /\ result'.rows[1].status = t
         /\ \E c \in ds_contract' : c.id = id /\ c.status = t

C13_AnyStatusToAny == [][AnyStatusToAny]_vars

C13_Witness ==
  /\ result.op = "updateContract" /\ result.ret = "row"
  /\ result.data.status = "active"
  /\ result.id = 2
  /\ \E c \in ds_contract : c.id = 2 /\ c.status = "active"
(***************************************************************************)
(* C14.  A create or update request whose body fails validation (missing   *)
(* field, wrong type, malformed date, bad VIN length) is answered with 400 *)
(* and does not reach the service: no statement is issued and the store is *)
(* unchanged.                                                              *)
(***************************************************************************)
Answered400Unserved ==
  /\ responseStatus' = 400
  /\ result'.stmts = 0
  /\ tables' = tables

InvalidBodyIs400 ==
  /\ \A body \in VehicleBodies :
       (VehicleCreateSchemaIssues(body) # {} /\ postVehicleNew(body)) => Answered400Unserved
  /\ \A id \in VehicleIds, body \in VehicleUpdateBodies :
       (VehicleUpdateSchemaIssues(body) # {} /\ putVehicle(id, body)) => Answered400Unserved
  /\ \A body \in ContractBodies :
       (/\ ContractCreateSchemaIssues(body) # {} \/ isNaNDate(body.start_date.s)
        /\ postContractNew(body)) => Answered400Unserved
  /\ \A id \in ContractIds, body \in ContractUpdateBodies :
       (/\ \/ ContractUpdateSchemaIssues(body) # {}
           \/ body.start_date.t = "string" /\ isNaNDate(body.start_date.s)
        /\ putContract(id, body)) => Answered400Unserved

C14_InvalidBodyIs400 == [][InvalidBodyIs400]_vars
(***************************************************************************)
(* C15.  The body of a 500 response does not depend on the error: two      *)
(* requests to a route that fail with 500, one after the other, receive    *)
(* identical bodies.                                                       *)
(***************************************************************************)
SameBodyOn500 ==
  (/\ responseStatus = 500
   /\ responseStatus' = 500
   /\ routeOf(result'.op) = routeOf(result.op))
    => errorBody' = errorBody

C15_SameBodyOn500 == [][SameBodyOn500]_vars
(***************************************************************************)
(* C16.  A successful create answers 201 with the created resource, a      *)
(* successful delete 204, a successful read or update 200 with the         *)
(* resource, and a get, update or delete on an id that no row has 404.     *)
(***************************************************************************)
Absent(table, id) == RowsById(table, id) = {}

CreatedIs201(tableAfter) ==
  result'.ret = "row" => responseStatus' = 201 /\ result'.rows[1] \in tableAfter

UpdatedIs200(table, tableAfter, id) ==
  /\ Absent(table, id) => responseStatus' = 404
  /\ result'.ret = "row"
       => responseStatus' = 200 /\ result'.rows[1] \in tableAfter /\ result'.rows[1].id = id

DeletedIs204(table, tableAfter, id) ==
  /\ Absent(table, id) => responseStatus' = 404
  /\ (~Absent(table, id) /\ Absent(tableAfter, id)) => responseStatus' = 204

StatusMapping ==
  LET op == result'.op
      id == result'.id
  IN
  /\ op = "createVehicle" => CreatedIs201(ds_vehicle')
  /\ op = "createCustomer" => CreatedIs201(ds_customer')
  /\ op = "createContract" => CreatedIs201(ds_contract')
  /\ op = "updateVehicle" => UpdatedIs200(ds_vehicle, ds_vehicle', id)
  /\ op = "updateContract" => UpdatedIs200(ds_contract, ds_contract', id)
  /\ op = "getVehicleById" =>
       IF Absent(ds_vehicle, id) THEN responseStatus' = 404
       ELSE responseStatus' = 200 /\ result'.rows = <<TheRow(RowsById(ds_vehicle, id))>>
  /\ op = "getCustomerById" =>
       IF Absent(ds_customer, id) THEN responseStatus' = 404
       ELSE responseStatus' = 200 /\ result'.rows = <<TheRow(RowsById(ds_customer, id))>>
  /\ op = "getContractById" =>
       IF Absent(ds_contract, id) THEN responseStatus' = 404
       ELSE responseStatus' = 200 /\ result'.rows[1].contract_number
                                      = TheRow(RowsById(ds_contract, id)).contract_number
  /\ op = "deleteVehicle" => DeletedIs204(ds_vehicle, ds_vehicle', id)
  /\ op = "deleteCustomer" => DeletedIs204(ds_customer, ds_customer', id)
  /\ op = "deleteContract" => DeletedIs204(ds_contract, ds_contract', id)

SeedCalled == seed'.calls = seed.calls + 1

IssuedFor(t) == {q.k : q \in {x \in seed'.pending \ seed.pending : x.table = t}}

IsSampleVehicle(r, k) ==
  /\ r.vin_number = SampleVehicles[k].vin_number
  /\ r.mileage = SampleVehicles[k].mileage
  /\ r.status = SampleVehicles[k].status

IsSampleCustomer(r, k) ==
  /\ r.first_name = SampleCustomers[k].first_name
  /\ r.last_name = SampleCustomers[k].last_name
  /\ r.phone_number = SampleCustomers[k].phone_number
  /\ r.address = SampleCustomers[k].address

VehiclesSeeded(table) ==
  /\ Cardinality(table) = MaxSeedRows
  /\ \A k \in SeedRows : \E r \in table : IsSampleVehicle(r, k)

CustomersSeeded(table) ==
  /\ Cardinality(table) = MaxSeedRows
  /\ \A k \in SeedRows : \E r \in table : IsSampleCustomer(r, k)

SeedGuarded ==
  /\ SeedCalled /\ usePostgres =>
       /\ IF ds_vehicle = {} THEN VehiclesSeeded(ds_vehicle') ELSE ds_vehicle' = ds_vehicle
       /\ IF ds_customer = {} THEN CustomersSeeded(ds_customer') ELSE ds_customer' = ds_customer
  /\ SeedCalled /\ ~usePostgres =>
       /\ ds_vehicle' = ds_vehicle /\ ds_customer' = ds_customer
       /\ IssuedFor("ds_vehicle") = IF ds_vehicle = {} THEN SeedRows ELSE {}
       /\ IssuedFor("ds_customer") = IF ds_customer = {} THEN SeedRows ELSE {}
  /\ \A q \in seed.pending \ seed'.pending :
       /\ q.table = "ds_vehicle" =>
            /\ ds_customer' = ds_customer
            /\ \/ /\ \E r \in ds_vehicle : r.vin_number = SampleVehicles[q.k].vin_number
                  /\ ds_vehicle' = ds_vehicle
               \/ \E r \in ds_vehicle' \ ds_vehicle :
                    IsSampleVehicle(r, q.k) /\ ds_vehicle' = ds_vehicle \cup {r}
       /\ q.table = "ds_customer" =>
            /\ ds_vehicle' = ds_vehicle
            /\ \E r \in ds_customer' \ ds_customer :
                 IsSampleCustomer(r, q.k) /\ ds_customer' = ds_customer \cup {r}

C18_ServicesAfterInit ==
  /\ server.services # {} => server.initialized
  /\ server.phase # "uncaught"

(***************************************************************************)
(* C19: initializeDatabase on a store that has every table and every added *)
(* column completes and leaves the schema and the rows as they were; and   *)
(* whichever ADD COLUMN statements fail, initialization completes and      *)
(* every other statement has had its effect.                               *)
(***************************************************************************)
Initializing == server.phase = "startServer" /\ server'.phase # "startServer"

FailedSteps == result'.data.fails

BootstrapIdempotent ==
  Initializing =>
    /\ schema = FullSchema /\ FailedSteps \cap FatalSteps = {} =>
         /\ server'.initialized
         /\ schema' = schema
         /\ tables' = tables
    /\ FailedSteps \subseteq AddColumnSteps =>
         /\ server'.initialized
         /\ \A t \in TableNames : schema'[t] # {}
         /\ \A i \in AddColumnSteps \ FailedSteps : Steps[i].column \in schema'[Steps[i].table]

C19_BootstrapIdempotent == [][BootstrapIdempotent]_vars

\* a restart on a seeded store of the first release, one ADD COLUMN failing
C19_Witness ==
  /\ result.op = "initializeDatabase"
  /\ result.data.fails # {}
  /\ server.initialized
  /\ ds_vehicle # {}
  /\ schema # FullSchema

(***************************************************************************)
(* C20: whenever no handler is running, every client that pgPool.connect() *)
(* has handed out has been released, once: after the schema bootstrap,     *)
(* seeding, /migrate-db, an upload and a file listing, whether their       *)
(* statements succeeded or failed.                                         *)
(***************************************************************************)
C20_ClientsReleased == pool.out = 0

\* a handler that took a client has just failed
C20_Witness ==
  /\ usePostgres
  /\ pool.out = 0
  /\ \/ result.op = "migrateDb" /\ result.ret = "Error" /\ 0 \notin result.data.fails
     \/ result.op = "listFiles" /\ result.ret = "Error"
     \/ result.op = "insertContractImage" /\ result.ret = "reject"
     \/ result.op = "initializeDatabase" /\ result.ret = "reject" /\ 0 \notin result.data.fails

(***************************************************************************)
(* C21: two calls of the same operation that supply the same fields send   *)
(* the same statement text, whatever the values and ids; and a statement   *)
(* text consists of fixed SQL, placeholders and column names of the        *)
(* schema, never of a supplied value.                                      *)
(***************************************************************************)
UpdateOps == {"updateVehicle", "updateCustomer", "updateContract"}

SameShape ==
  /\ result.op = result'.op
  /\ result.op \in UpdateOps =>
       ContractUpdateFields(result.data) = ContractUpdateFields(result'.data)

ValuesAreBound ==
  /\ SameShape => QueryText(result) = QueryText(result')
  /\ \A i \in DOMAIN QueryText(result') : QueryText(result')[i] \in SqlWords \cup Columns

UploadRoute == "POST /api/contract-files/upload"

ClientErrors == {"No file uploaded", "Validation error"} \cup MulterErrors

StoreErrors ==
  {"Missing required DigitalOcean Spaces environment variables", "foreign_key"}
    \cup (S3Outcomes \ {"ok"})

UploadAnswered ==
  routeOf(result'.op) = UploadRoute =>
    /\ result'.err \in ClientErrors =>
         responseStatus' = 400 /\ UNCHANGED <<spaces, ds_contract_image>>
    /\ result'.err \in StoreErrors => responseStatus' = 500

C22_UploadAnswered == [][UploadAnswered]_vars

(***************************************************************************)
(* C30: after every upload request the objects in the bucket are exactly   *)
(* the image_path values of the ds_contract_image rows, and a 201 has both *)
(* its object and its row.                                                 *)
(***************************************************************************)
ImagePaths == {r.image_path : r \in ds_contract_image}

C30_AllOrNothing ==
  /\ spaces = ImagePaths
  /\ (routeOf(result.op) = UploadRoute /\ responseStatus = 201) =>
       \E i \in DOMAIN result.rows : result.rows[i] \in ds_contract_image /\ result.rows[i].image_path \in spaces

(***************************************************************************)
(* C23: after a successful update(id, partial) the row with that id has    *)
(* the supplied value in every column partial names and its previous value *)
(* in every other column except updated_at, and every other row of every   *)
(* table is as it was.                                                     *)
(***************************************************************************)
OnlySupplied(old, new, id, partial) ==
  /\ {r \in new : r.id # id} = {r \in old : r.id # id}
  /\ RowsById(new, id) # {}
  /\ \A r \in RowsById(old, id), u \in RowsById(new, id) :
       \A f \in DOMAIN r :
         IF f \in ContractUpdateFields(partial) THEN u[f] = partial[f]
         ELSE f = "updated_at" \/ u[f] = r[f]

PartialUpdate ==
  result'.ret = "row" =>
    /\ result'.op = "updateVehicle" =>
         /\ OnlySupplied(ds_vehicle, ds_vehicle', result'.id, result'.data)
         /\ UNCHANGED <<ds_customer, ds_contract, ds_contract_image>>
    /\ result'.op = "updateCustomer" =>
         /\ OnlySupplied(ds_customer, ds_customer', result'.id, result'.data)
         /\ UNCHANGED <<ds_vehicle, ds_contract, ds_contract_image>>
    /\ result'.op = "updateContract" =>
         /\ OnlySupplied(ds_contract, ds_contract', result'.id, result'.data)
         /\ UNCHANGED <<ds_vehicle, ds_customer, ds_contract_image>>

C23_PartialUpdate == [][PartialUpdate]_vars

\* a customer with an address has had its phone number alone updated
C23_Witness ==
  /\ result.op = "updateCustomer"
  /\ result.ret = "row"
  /\ ContractUpdateFields(result.data) = {"phone_number"}
  /\ \E r \in ds_customer :
       /\ r.id = result.id
       /\ r.address = "1 Main St"
       /\ r.phone_number = "555-0199"

(***************************************************************************)
(* C24: a GET of /api/contracts/search is answered by the search handler   *)
(* with the contracts whose customer_name, contract_number or vin_number   *)
(* contains the query, case-insensitively; it is never answered as a       *)
(* lookup of the contract with id "search".                                *)
(***************************************************************************)
SearchRequested == result.op # "none" /\ "path" \in DOMAIN result.data /\ result.data.path = <<"search">>

Matching(q) ==
  {c \in ds_contract : \/ includes(toLowerCase(c.customer_name), q)
                       \/ includes(toLowerCase(c.contract_number), q)
                       \/ includes(toLowerCase(c.vin_number), q)}

C24_SearchDispatched ==
  SearchRequested =>
    /\ result.op = "searchContracts"
    /\ {result.rows[i] : i \in DOMAIN result.rows} = Matching(result.data.q)

(***************************************************************************)
(* C25: every service constructed in a process works on the backend the    *)
(* configuration selects, PostgreSQL unless USE_SQLITE is 'true'.          *)
(***************************************************************************)
C25_OneBackend == \A service \in server.services : constructedWith(service) = usePostgres

(***************************************************************************)
(* C26: the response of getContractById(id) for an existing contract has   *)
(* the requested id as its top-level id, and the contract's own status,    *)
(* created_at and updated_at, whichever vehicle and customer it refers to. *)
(***************************************************************************)
C26_OwnColumns ==
  (result.op = "getContractById" /\ result.ret = "row") =>
    \A c \in RowsById(ds_contract, result.id) :
      /\ result.rows[1].id = result.id
      /\ result.rows[1].status = c.status
      /\ result.rows[1].created_at = c.created_at
      /\ result.rows[1].updated_at = c.updated_at

(***************************************************************************)
(* C27: however calls of seedSampleData on an empty store overlap, once    *)
(* all their inserts have run the store holds exactly the sample vehicles  *)
(* and exactly the sample customers, each once.                            *)
(***************************************************************************)
SeedingDone == seed.calls > 0 /\ seed.pending = {}

C27_SeededOnce == SeedingDone => VehiclesSeeded(ds_vehicle) /\ CustomersSeeded(ds_customer)

(***************************************************************************)
(* C28: a list read after the promise of seedSampleData has resolved on a  *)
(* store that was empty holds all the sample vehicles, or all the sample   *)
(* customers.                                                              *)
(***************************************************************************)
ResultRows == {result.rows[i] : i \in DOMAIN result.rows}

C28_SeededWhenResolved ==
  /\ result.op = "getAllVehicles" => VehiclesSeeded(ResultRows)
  /\ result.op = "getAllCustomers" => CustomersSeeded(ResultRows)

(***************************************************************************)
(* C29: with deletes of the same id running at any point, an update that   *)
(* reports not-found has written nothing, and a create or update that      *)
(* resolves resolves with the row it wrote, never with nothing.            *)
(***************************************************************************)
Resolves(op) == result'.op = op /\ result' # result

WriteThenRead ==
  /\ (Resolves("updateCustomer") /\ result'.ret \in {"null", "undefined"}) => inflight = NoRead
  /\ (Resolves("updateCustomer") /\ result'.ret # "null") => result'.ret = "row"
  /\ (Resolves("createContract") /\ result'.ret # "reject") => result'.ret = "row"

C29_WriteThenRead == [][WriteThenRead]_vars

====
